---- MODULE Spec2Model ----
(***************************************************************************)
(* LeaveFlow: the leave validation and balance engine.                     *)
(*                                                                         *)
(* The database tables are the shared state; every request handler runs    *)
(* in its own SQLAlchemy session (app/database.py get_db) and is modelled  *)
(* as a frame h[p] that walks through the statements of the handler.  One  *)
(* action is one database round trip (a SELECT, or a flush + COMMIT) plus  *)
(* the Python code up to the next round trip.  The store is PostgreSQL at  *)
(* READ COMMITTED: a SELECT sees the last committed rows, an UPDATE        *)
(* writes only the columns the session changed, and a flushed UPDATE       *)
(* keeps the row locked until its transaction commits.                     *)
(*                                                                         *)
(* Day counts and balances are Python floats that only take multiples of   *)
(* 0.5; they are modelled as integers counting half days (Days(n)).        *)
(* Dates are day numbers; day 0 is a Monday, so weekday(d) = d % 7.        *)
(***************************************************************************)
EXTENDS Integers, Sequences, FiniteSets, Bags, TLC

----------------------------------------------------------------------------
(* Bounds of the model *)

NumUsers == 2
MaxRequests == 3
MaxHistory == 2
Today == 4
DaysBack == 2
DaysAhead == 3
CalcWeeks == 2
NumMessages == 2
MaxCommands == 2

Users == 1 .. NumUsers
Managers == {NumUsers + 1}
Procs == {1, 2}
Dates == (Today - DaysBack) .. (Today + DaysAhead)
RequestIds == 1 .. (MaxRequests + 1)

----------------------------------------------------------------------------
(* app/models.py *)

LeaveType == {"casual", "sick", "special"}
LeaveStatus == {"pending", "approved", "rejected", "cancelled"}
DurationType == {"full", "half_morning", "half_afternoon"}

\* NULL of an integer column, of a text column and of a timestamp column
NoneId == 0
NoneText == "None"
NoneTime == "None"
\* the value datetime.utcnow() stores: a timestamp was recorded
Stamped == "utcnow"

\* a float number of days, in half days
Days(n) == 2 * n
HalfDay == 1

DefaultCasual == Days(12)
DefaultSick == Days(12)
DefaultSpecial == Days(5)
MaxCarry == Days(5)

YearOf(d) == d \div 365

DefaultBalance ==
  [casual |-> DefaultCasual, sick |-> DefaultSick, special |-> DefaultSpecial,
   year |-> YearOf(Today)]

UserRole == {"worker", "manager", "hr", "admin"}
AccountCreationRequestStatus == {"pending", "approved", "rejected"}
MessageIds == 1 .. NumMessages

\* a row of users: the phone is unique; the phone of the users the runs start
\* with is written as their id
User(phone, role) == [phone |-> phone, role |-> role]

\* a row of account_creation_requests as create_account_request stores it
AccountCreationRequest(phone, role) ==
  [phone |-> phone, requested_role |-> role, status |-> "pending",
   rejection_reason |-> NoneText, approved_by |-> NoneId]

Reasons == {"busy"}
Periods == {"morning", "afternoon"}

----------------------------------------------------------------------------
(* The tables and the handler frames *)

VARIABLES
  leave_requests,         \* leave_requests: sequence of rows, id = index
  leave_balances,         \* leave_balances: user_id -> row (user_id is unique)
  leave_balance_history,  \* leave_balance_history: bag of rows
  audit_logs,             \* audit_logs: bag of rows
  holidays,               \* holidays: set of dates
  users,                  \* users: sequence of rows, id = index
  account_creation_requests,  \* account_creation_requests: sequence of rows, id = index
  processed_messages,     \* processed_messages: set of message ids (message_id is unique)
  commands,               \* commands[m]: how often the command of message m was run
  h                       \* h[p]: the frame of handler p

\* the tables of the accounts and of the webhook
front == <<users, account_creation_requests, processed_messages, commands>>
db == <<leave_requests, leave_balances, leave_balance_history, audit_logs, holidays, front>>
vars == <<leave_requests, leave_balances, leave_balance_history, audit_logs, holidays,
          users, account_creation_requests, processed_messages, commands, h>>

EmptyTable == <<>>

Idle ==
  [pc |-> "idle", op |-> "none", rid |-> NoneId, actor |-> NoneId,
   req |-> <<>>, bal |-> EmptyTable, inp |-> <<>>, days |-> 0,
   reason |-> NoneText, warn |-> {}, count |-> 0, locked |-> FALSE,
   current |-> 0, debited |-> FALSE, credited |-> FALSE, result |-> "none",
   ret |-> <<>>, sent |-> FALSE]

\* the end of a handler: the session is closed (its loaded rows are gone), the
\* call's arguments and its outcome remain for the response
Closed(f) == [f EXCEPT !.pc = "done", !.req = <<>>, !.bal = EmptyTable, !.locked = FALSE]
\* raise LeaveValidationError(message, code): the handler ends with the code
Raise(f, code) == [Closed(f) EXCEPT !.result = code]
\* return: the handler ends normally
Finish(f) == [Closed(f) EXCEPT !.result = "ok"]

\* another session has flushed an UPDATE of request rid and not yet committed
RowLocked(p, rid) == \E q \in Procs \ {p} : h[q].locked /\ h[q].rid = rid

\* flush of a loaded row: UPDATE ... SET only the attributes whose value differs
\* from the loaded one
FlushRow(stored, loaded, changes) ==
  [f \in DOMAIN stored |->
     IF f \in DOMAIN changes /\ changes[f] # loaded[f] THEN changes[f] ELSE stored[f]]

AuditLog(rid, action, actor, details) ==
  [leave_request_id |-> rid, action |-> action, actor_id |-> actor, details |-> details]

\* _log_action without the db.add of line 444
log_action_nothing(logs, rid, action, actor, details) == logs

\* LeaveService._log_action: db.add(AuditLog(...)), written by the caller's commit
log_action(logs, rid, action, actor, details) ==
  logs (+) SetToBag({AuditLog(rid, action, actor, details)})

\* LeaveService._get_leave_request: SELECT ... WHERE id = request_id
get_leave_request(rid) ==
  IF rid \in DOMAIN leave_requests THEN <<leave_requests[rid]>> ELSE <<>>

\* SELECT * FROM leave_balances WHERE user_id = :u  (scalar_one_or_none)
select_balance(u) ==
  IF u \in DOMAIN leave_balances THEN (u :> leave_balances[u]) ELSE EmptyTable

----------------------------------------------------------------------------
(* validator.py: deduct_balance and refund_balance *)

\* current = getattr(balance, leave_type.value) of the loaded row (0 without a row)
current_of(bal, u, t) == IF u \in DOMAIN bal THEN bal[u][t] ELSE 0

\* deduct_balance without the comparison of line 201
deduct_ok_unchecked(bal, u, t, days) == u \in DOMAIN bal

\* deduct_balance refusing only a balance that is already negative
deduct_ok_nonnegative(bal, u, t, days) == u \in DOMAIN bal /\ ~(bal[u][t] < 0)

\* deduct_balance up to its commit: FALSE when there is no row or too little
deduct_ok(bal, u, t, days) == u \in DOMAIN bal /\ ~(bal[u][t] < days)

\* setattr(balance, leave_type.value, current - days); commit
deduct_write(table, bal, u, t, days) ==
  [table EXCEPT ![u] = FlushRow(@, bal[u], [x \in {t} |-> bal[u][t] - days])]

\* refund_balance up to its commit: FALSE when there is no row
refund_ok(bal, u) == u \in DOMAIN bal

\* refund_balance committing without the setattr of line 220
refund_write_nothing(table, bal, u, t, days) == table

\* setattr(balance, leave_type.value, current + days); commit
refund_write(table, bal, u, t, days) ==
  [table EXCEPT ![u] = FlushRow(@, bal[u], [x \in {t} |-> bal[u][t] + days])]

----------------------------------------------------------------------------
(* LeaveService.approve_leave *)

\* approve_leave clearing the day count of the request it approves
approve_changes_and_days(approver) ==
  [status |-> "approved", approved_by |-> approver, approved_at |-> Stamped, days |-> 0]

\* lines 126-128: the attributes approve_leave sets
approve_changes(approver) ==
  [status |-> "approved", approved_by |-> approver, approved_at |-> Stamped]

\* approve_leave without the status test of line 122
approve_check_found_only(found) == IF found = <<>> THEN "NOT_FOUND" ELSE "none"

\* lines 119-123: the error approve_leave raises for the loaded request, if any
approve_check(found) ==
  IF found = <<>> THEN "NOT_FOUND"
  ELSE IF found[1].status # "pending" THEN "ALREADY_PROCESSED"
  ELSE "none"

\* lines 117-128: load the request, NOT_FOUND / ALREADY_PROCESSED, set the
\* attributes in memory
ApproveRead(p, rids) ==
  /\ h[p].pc = "idle"
  /\ \E rid \in rids, approver \in Managers :
       LET found == get_leave_request(rid)
           f == [Idle EXCEPT !.op = "approve", !.rid = rid, !.actor = approver,
                             !.req = found]
       IN h' = [h EXCEPT ![p] =
                  IF approve_check(found) # "none" THEN Raise(f, approve_check(found))
                  ELSE [f EXCEPT !.pc = "approve_deduct"]]
  /\ UNCHANGED db

\* lines 131-136, deduct_balance lines 192-202: the SELECT autoflushes the
\* request's UPDATE (the row stays locked), then the balance row is read
ApproveDeduct(p) ==
  /\ h[p].pc = "approve_deduct"
  /\ ~RowLocked(p, h[p].rid)
  /\ LET r == h[p].req[1]
         bal == select_balance(r.user_id)
     IN h' = [h EXCEPT ![p] =
                [@ EXCEPT !.locked = TRUE, !.bal = bal,
                          !.current = current_of(bal, r.user_id, r.leave_type),
                          !.pc = IF deduct_ok(bal, r.user_id, r.leave_type, r.days)
                                 THEN "approve_deduct_commit" ELSE "approve_commit"]]
  /\ UNCHANGED db

\* deduct_balance lines 204-206: the new balance is flushed and the transaction,
\* the request's UPDATE included, is committed
ApproveDeductCommit(p) ==
  /\ h[p].pc = "approve_deduct_commit"
  /\ LET r == h[p].req[1]
     IN /\ leave_requests' =
             [leave_requests EXCEPT ![h[p].rid] = FlushRow(@, r, approve_changes(h[p].actor))]
        /\ leave_balances' =
             deduct_write(leave_balances, h[p].bal, r.user_id, r.leave_type, r.days)
  /\ h' = [h EXCEPT ![p] = [@ EXCEPT !.locked = FALSE, !.debited = TRUE,
                                     !.pc = "approve_commit"]]
  /\ UNCHANGED <<leave_balance_history, audit_logs, holidays, front>>

\* lines 138-141: the audit entry and the commit; when deduct_balance returned
\* False this commit is the one that stores the request's UPDATE
ApproveCommit(p) ==
  /\ h[p].pc = "approve_commit"
  /\ leave_requests' =
       IF h[p].locked
       THEN [leave_requests EXCEPT
               ![h[p].rid] = FlushRow(@, h[p].req[1], approve_changes(h[p].actor))]
       ELSE leave_requests
  /\ audit_logs' = log_action(audit_logs, h[p].rid, "approved", h[p].actor, NoneText)
  /\ h' = [h EXCEPT ![p] = [@ EXCEPT !.locked = FALSE, !.pc = "notify"]]
  /\ UNCHANGED <<leave_balances, leave_balance_history, holidays, front>>

----------------------------------------------------------------------------
(* LeaveService.reject_leave *)

\* reject_leave without line 175 (the rejection reason)
reject_changes_no_reason(approver, reason) ==
  [status |-> "rejected", approved_by |-> approver, approved_at |-> Stamped]

reject_changes(approver, reason) ==
  [status |-> "rejected", approved_by |-> approver, approved_at |-> Stamped,
   rejection_reason |-> reason]

\* lines 165-169: the error reject_leave raises for the loaded request, if any
reject_check(found) ==
  IF found = <<>> THEN "NOT_FOUND"
  ELSE IF found[1].status # "pending" THEN "ALREADY_PROCESSED"
  ELSE "none"

\* lines 163-175
RejectRead(p, rids) ==
  /\ h[p].pc = "idle"
  /\ \E rid \in rids, approver \in Managers, reason \in Reasons :
       LET found == get_leave_request(rid)
           f == [Idle EXCEPT !.op = "reject", !.rid = rid, !.actor = approver,
                             !.reason = reason, !.req = found]
       IN h' = [h EXCEPT ![p] =
                  IF reject_check(found) # "none" THEN Raise(f, reject_check(found))
                  ELSE [f EXCEPT !.pc = "reject_commit"]]
  /\ UNCHANGED db

\* lines 177-180: the audit entry, the flush of the request's UPDATE and the commit
RejectCommit(p) ==
  /\ h[p].pc = "reject_commit"
  /\ ~RowLocked(p, h[p].rid)
  /\ leave_requests' =
       [leave_requests EXCEPT
          ![h[p].rid] = FlushRow(@, h[p].req[1], reject_changes(h[p].actor, h[p].reason))]
  /\ audit_logs' = log_action(audit_logs, h[p].rid, "rejected", h[p].actor, h[p].reason)
  /\ h' = [h EXCEPT ![p] = [@ EXCEPT !.pc = "notify"]]
  /\ UNCHANGED <<leave_balances, leave_balance_history, holidays, front>>

----------------------------------------------------------------------------
(* LeaveService.cancel_leave *)

cancel_changes == [status |-> "cancelled"]

\* cancel_leave with the status test before the owner test
cancel_check_status_first(found, user) ==
  IF found = <<>> THEN "NOT_FOUND"
  ELSE IF found[1].status \notin {"pending", "approved"} THEN "INVALID_STATUS"
  ELSE IF found[1].user_id # user THEN "FORBIDDEN"
  ELSE "none"

\* lines 203-210: the error cancel_leave raises for the loaded request, if any
cancel_check(found, user) ==
  IF found = <<>> THEN "NOT_FOUND"
  ELSE IF found[1].user_id # user THEN "FORBIDDEN"
  ELSE IF found[1].status \notin {"pending", "approved"} THEN "INVALID_STATUS"
  ELSE "none"

\* lines 201-213
CancelRead(p, rids) ==
  /\ h[p].pc = "idle"
  /\ \E rid \in rids, user \in Users :
       LET found == get_leave_request(rid)
           f == [Idle EXCEPT !.op = "cancel", !.rid = rid, !.actor = user, !.req = found]
       IN h' = [h EXCEPT ![p] =
                  IF cancel_check(found, user) # "none"
                  THEN Raise(f, cancel_check(found, user))
                  ELSE IF found[1].status = "approved"
                       THEN [f EXCEPT !.pc = "cancel_refund"]
                  ELSE [f EXCEPT !.pc = "cancel_commit"]]
  /\ UNCHANGED db

\* lines 214-219, refund_balance lines 211-217: the balance row is read
CancelRefund(p) ==
  /\ h[p].pc = "cancel_refund"
  /\ LET r == h[p].req[1]
         bal == select_balance(r.user_id)
     IN h' = [h EXCEPT ![p] =
                [@ EXCEPT !.bal = bal,
                          !.current = current_of(bal, r.user_id, r.leave_type),
                          !.pc = IF refund_ok(bal, r.user_id)
                                 THEN "cancel_refund_commit" ELSE "cancel_commit"]]
  /\ UNCHANGED db

\* refund_balance lines 219-222: the new balance is flushed and committed
CancelRefundCommit(p) ==
  /\ h[p].pc = "cancel_refund_commit"
  /\ LET r == h[p].req[1]
     IN leave_balances' =
          refund_write(leave_balances, h[p].bal, r.user_id, r.leave_type, r.days)
  /\ h' = [h EXCEPT ![p] = [@ EXCEPT !.credited = TRUE, !.pc = "cancel_commit"]]
  /\ UNCHANGED <<leave_requests, leave_balance_history, audit_logs, holidays, front>>

\* lines 221-227: status = cancelled, the audit entry and the commit
CancelCommit(p) ==
  /\ h[p].pc = "cancel_commit"
  /\ ~RowLocked(p, h[p].rid)
  /\ leave_requests' =
       [leave_requests EXCEPT ![h[p].rid] = FlushRow(@, h[p].req[1], cancel_changes)]
  /\ audit_logs' = log_action(audit_logs, h[p].rid, "cancelled", h[p].actor, NoneText)
  /\ h' = [h EXCEPT ![p] = [@ EXCEPT !.pc = "notify"]]
  /\ UNCHANGED <<leave_balances, leave_balance_history, holidays, front>>

----------------------------------------------------------------------------
(* LeaveService.get_balance *)

\* lines 257-261: the dictionary that is returned
balance_values(row) == [casual |-> row.casual, sick |-> row.sick, special |-> row.special]

\* lines 239-244 and 257-261: SELECT by user_id alone; an existing row is
\* returned as it is, whatever its year
BalanceRead(p) ==
  /\ h[p].pc = "idle"
  /\ \E u \in Users :
       LET bal == select_balance(u)
           f == [Idle EXCEPT !.op = "get_balance", !.actor = u, !.bal = bal]
       IN h' = [h EXCEPT ![p] =
                  IF u \in DOMAIN bal
                  THEN Finish([f EXCEPT !.ret = <<balance_values(bal[u])>>])
                  ELSE [f EXCEPT !.pc = "balance_create"]]
  /\ UNCHANGED db

\* INSERT of the default row and commit; user_id is unique, so the INSERT of a
\* second row for the user raises IntegrityError
insert_default_balance(table, u) == [x \in DOMAIN table \cup {u} |->
                                       IF x = u THEN DefaultBalance ELSE table[x]]

\* lines 245-255
BalanceCreate(p) ==
  /\ h[p].pc = "balance_create"
  /\ LET u == h[p].actor
     IN IF u \in DOMAIN leave_balances
        THEN /\ h' = [h EXCEPT ![p] = Raise(@, "IntegrityError")]
             /\ UNCHANGED leave_balances
        ELSE /\ leave_balances' = insert_default_balance(leave_balances, u)
             /\ h' = [h EXCEPT ![p] =
                        Finish([@ EXCEPT !.bal = (u :> DefaultBalance),
                                         !.ret = <<balance_values(DefaultBalance)>>])]
  /\ UNCHANGED <<leave_requests, leave_balance_history, audit_logs, holidays, front>>

----------------------------------------------------------------------------
(* routes/leave.py carry_forward_leaves *)

Min(a, b) == IF a < b THEN a ELSE b

\* line 306
casual_carryover(row) == IF row.casual > 0 THEN Min(row.casual, MaxCarry) ELSE 0

\* lines 310-313: the attributes set on a row that carries something forward
carry_changes(row) ==
  [casual |-> DefaultCasual + casual_carryover(row), sick |-> DefaultSick,
   special |-> DefaultSpecial, year |-> YearOf(Today)]

\* lines 316-322
carry_history(u, row) ==
  [user_id |-> u, leave_type |-> "casual", days_changed |-> casual_carryover(row),
   balance_after |-> DefaultCasual + casual_carryover(row),
   leave_request_id |-> NoneId]

\* the users of the loaded rows that carry something forward (line 308)
carried_users(bal) == {u \in DOMAIN bal : casual_carryover(bal[u]) > 0}

\* lines 296-300: SELECT of all balance rows
CarryRead(p) ==
  /\ h[p].pc = "idle"
  /\ BagCardinality(leave_balance_history) < MaxHistory
  /\ \E admin \in Managers :
       h' = [h EXCEPT ![p] = [Idle EXCEPT !.op = "carry_forward", !.actor = admin,
                                          !.bal = leave_balances,
                                          !.pc = "carry_commit"]]
  /\ UNCHANGED db

\* lines 304-333: the loop over the loaded rows, then one flush and commit
CarryCommit(p) ==
  /\ h[p].pc = "carry_commit"
  /\ LET bal == h[p].bal
         who == carried_users(bal)
     IN /\ leave_balances' =
             [u \in DOMAIN leave_balances |->
                IF u \in who THEN FlushRow(leave_balances[u], bal[u], carry_changes(bal[u]))
                ELSE leave_balances[u]]
        /\ leave_balance_history' =
             leave_balance_history (+) SetToBag({carry_history(u, bal[u]) : u \in who})
        /\ h' = [h EXCEPT ![p] = Finish([@ EXCEPT !.count = Cardinality(who)])]
  /\ UNCHANGED <<leave_requests, audit_logs, holidays, front>>

----------------------------------------------------------------------------
(* validator.py: LeaveValidator *)

\* date.weekday(): Monday is 0 and Sunday is 6
weekday(d) == d % 7

\* _get_holidays: the holidays with start_date <= date <= end_date
get_holidays(start_date, end_date) ==
  {d \in holidays : d >= start_date /\ d <= end_date}

\* the while loop of _calculate_working_days, from current to end_date
RECURSIVE count_working_days(_, _, _)
count_working_days(current, end_date, holiday_dates) ==
  IF current <= end_date
  THEN (IF weekday(current) < 5 /\ current \notin holiday_dates THEN 1 ELSE 0)
       + count_working_days(current + 1, end_date, holiday_dates)
  ELSE 0

\* _calculate_working_days counting holidays as working days
calculate_working_days_no_holidays(start_date, end_date, holiday_dates) ==
  Days(count_working_days(start_date, end_date, {}))

\* _calculate_working_days stopping before end_date
calculate_working_days_exclusive(start_date, end_date, holiday_dates) ==
  Days(count_working_days(start_date, end_date - 1, holiday_dates))

\* _calculate_working_days
calculate_working_days(start_date, end_date, holiday_dates) ==
  Days(count_working_days(start_date, end_date, holiday_dates))

\* the WHERE clause without its third condition (the stored range inside the
\* new one)
overlap_clause_ends_only(r, user_id, start_date, end_date) ==
  /\ r.user_id = user_id
  /\ r.status \in {"pending", "approved"}
  /\ \/ r.start_date <= start_date /\ r.end_date >= start_date
     \/ r.start_date <= end_date /\ r.end_date >= end_date

\* the WHERE clause without its test of the status
overlap_clause_any_status(r, user_id, start_date, end_date) ==
  /\ r.user_id = user_id
  /\ \/ r.start_date <= start_date /\ r.end_date >= start_date
     \/ r.start_date <= end_date /\ r.end_date >= end_date
     \/ r.start_date >= start_date /\ r.end_date <= end_date

\* the WHERE clause of _check_overlap for one stored row
overlap_clause(r, user_id, start_date, end_date) ==
  /\ r.user_id = user_id
  /\ r.status \in {"pending", "approved"}
  /\ \/ r.start_date <= start_date /\ r.end_date >= start_date
     \/ r.start_date <= end_date /\ r.end_date >= end_date
     \/ r.start_date >= start_date /\ r.end_date <= end_date

\* _check_overlap
check_overlap(user_id, start_date, end_date) ==
  \E i \in DOMAIN leave_requests :
    overlap_clause(leave_requests[i], user_id, start_date, end_date)

\* _check_pending_requests without its test of the status
check_pending_requests_any_status(user_id) ==
  \E i \in DOMAIN leave_requests : leave_requests[i].user_id = user_id

\* _check_pending_requests
check_pending_requests(user_id) ==
  \E i \in DOMAIN leave_requests :
    leave_requests[i].user_id = user_id /\ leave_requests[i].status = "pending"

\* validate_leave_request without lines 60-61 (the half day)
charged_days_whole(start_date, end_date, is_half_day, holiday_dates) ==
  calculate_working_days(start_date, end_date, holiday_dates)

\* validate_leave_request charging half a day only when the range has a
\* working day
charged_days_if_working(start_date, end_date, is_half_day, holiday_dates) ==
  IF is_half_day /\ calculate_working_days(start_date, end_date, holiday_dates) > 0
  THEN HalfDay
  ELSE calculate_working_days(start_date, end_date, holiday_dates)

\* validate_leave_request line 60: a half day is 0.5 whatever the range
charged_days(start_date, end_date, is_half_day, holiday_dates) ==
  IF is_half_day THEN HalfDay
  ELSE calculate_working_days(start_date, end_date, holiday_dates)

\* the balance test refusing a balance equal to the day count as well
balance_too_small_or_equal(balance, days) == balance <= days

\* validate_leave_request line 84
balance_too_small(balance, days) == balance < days

----------------------------------------------------------------------------
(* LeaveService.create_leave_request *)

\* leave.py lines 47-50
duration_of(is_half_day, half_day_period) ==
  IF is_half_day
  THEN (IF half_day_period = "morning" THEN "half_morning" ELSE "half_afternoon")
  ELSE "full"

\* leave.py lines 62-71: the row that is inserted
new_request(inp, days) ==
  [user_id |-> inp.user_id, start_date |-> inp.start_date, end_date |-> inp.end_date,
   days |-> days, leave_type |-> inp.leave_type, duration_type |-> inp.duration_type,
   status |-> "pending", rejection_reason |-> NoneText, approved_by |-> NoneId,
   approved_at |-> NoneTime]

\* the handlers that are between the start of a create and its INSERT
CreatesInFlight ==
  Cardinality({q \in Procs : h[q].op = "create" /\ h[q].pc \notin {"done", "create_log", "notify"}})

\* the arguments of a create call: users, dates and leave types of the caller's choice
CreateInputs(callers, dates, types, halves) ==
  [user_id : callers, start_date : dates, end_date : dates, leave_type : types,
   is_half_day : halves, half_day_period : IF TRUE \in halves THEN Periods ELSE {NoneText}]

\* the date checks with the day count tested first
date_checks_days_first(start_date, end_date, days) ==
  IF days <= 0 THEN "NO_WORKING_DAYS"
  ELSE IF end_date < start_date THEN "INVALID_DATE_RANGE"
  ELSE IF start_date < Today THEN "PAST_DATE"
  ELSE "none"

\* the date checks with the past date tested first
date_checks_past_first(start_date, end_date, days) ==
  IF start_date < Today THEN "PAST_DATE"
  ELSE IF end_date < start_date THEN "INVALID_DATE_RANGE"
  ELSE IF days <= 0 THEN "NO_WORKING_DAYS"
  ELSE "none"

\* the date checks refusing today as well
date_checks_today_past(start_date, end_date, days) ==
  IF end_date < start_date THEN "INVALID_DATE_RANGE"
  ELSE IF start_date <= Today THEN "PAST_DATE"
  ELSE IF days <= 0 THEN "NO_WORKING_DAYS"
  ELSE "none"

\* the date checks without the test of the range (lines 50-51)
date_checks_no_range(start_date, end_date, days) ==
  IF start_date < Today THEN "PAST_DATE"
  ELSE IF days <= 0 THEN "NO_WORKING_DAYS"
  ELSE "none"

\* validator.py lines 50-67: the error of the date checks, if any
date_checks(start_date, end_date, days) ==
  IF end_date < start_date THEN "INVALID_DATE_RANGE"
  ELSE IF start_date < Today THEN "PAST_DATE"
  ELSE IF days <= 0 THEN "NO_WORKING_DAYS"
  ELSE "none"

\* leave.py lines 44-59, validator.py lines 47-67: the date checks and the day count
CreateBegin(p, inputs) ==
  /\ h[p].pc = "idle"
  /\ Len(leave_requests) + CreatesInFlight < MaxRequests
  /\ \E a \in inputs :
       LET inp == [user_id |-> a.user_id, start_date |-> a.start_date,
                   end_date |-> a.end_date, leave_type |-> a.leave_type,
                   is_half_day |-> a.is_half_day,
                   duration_type |-> duration_of(a.is_half_day, a.half_day_period)]
           days == charged_days(a.start_date, a.end_date, a.is_half_day,
                                get_holidays(a.start_date, a.end_date))
           f == [Idle EXCEPT !.op = "create", !.actor = a.user_id, !.inp = <<inp>>]
       IN h' = [h EXCEPT ![p] =
                  IF date_checks(a.start_date, a.end_date, days) # "none"
                  THEN Raise(f, date_checks(a.start_date, a.end_date, days))
                  ELSE [f EXCEPT !.days = days, !.pc = "create_overlap"]]
  /\ UNCHANGED db

\* validator.py lines 69-80: the overlap query and the pending query
CreateOverlap(p) ==
  /\ h[p].pc = "create_overlap"
  /\ LET inp == h[p].inp[1]
     IN h' = [h EXCEPT ![p] =
                IF check_overlap(inp.user_id, inp.start_date, inp.end_date)
                THEN Raise(@, "OVERLAPPING_LEAVE")
                ELSE [@ EXCEPT !.pc = "create_balance",
                               !.warn = IF check_pending_requests(inp.user_id)
                                        THEN {"pending"} ELSE {}]]
  /\ UNCHANGED db

\* validator.py lines 84-96, with the balance the caller got
balance_checked(f, balance) ==
  LET inp == f.inp[1]
  IN IF balance_too_small(balance, f.days)
     THEN Raise(f, "INSUFFICIENT_BALANCE")
     ELSE [f EXCEPT !.pc = "create_insert",
                    !.warn = IF get_holidays(inp.start_date, inp.end_date) # {}
                             THEN @ \cup {"holidays"} ELSE @]

\* validator.py line 83, _get_balance lines 169-174 and 187: the balance row is read
CreateBalance(p) ==
  /\ h[p].pc = "create_balance"
  /\ LET inp == h[p].inp[1]
         bal == select_balance(inp.user_id)
         f == [h[p] EXCEPT !.bal = bal]
     IN h' = [h EXCEPT ![p] =
                IF inp.user_id \in DOMAIN bal
                THEN balance_checked(f, bal[inp.user_id][inp.leave_type])
                ELSE [f EXCEPT !.pc = "create_balance_insert"]]
  /\ UNCHANGED db

\* _get_balance lines 175-187: the default row is inserted and committed
CreateBalanceInsert(p) ==
  /\ h[p].pc = "create_balance_insert"
  /\ LET inp == h[p].inp[1]
         u == inp.user_id
     IN IF u \in DOMAIN leave_balances
        THEN /\ h' = [h EXCEPT ![p] = Raise(@, "IntegrityError")]
             /\ UNCHANGED leave_balances
        ELSE /\ leave_balances' = insert_default_balance(leave_balances, u)
             /\ h' = [h EXCEPT ![p] =
                        balance_checked([@ EXCEPT !.bal = (u :> DefaultBalance)],
                                        DefaultBalance[inp.leave_type])]
  /\ UNCHANGED <<leave_requests, leave_balance_history, audit_logs, holidays, front>>

\* leave.py lines 62-75: INSERT of the request and commit; the id is assigned
CreateInsert(p) ==
  /\ h[p].pc = "create_insert"
  /\ leave_requests' = Append(leave_requests, new_request(h[p].inp[1], h[p].days))
  /\ h' = [h EXCEPT ![p] = [@ EXCEPT !.rid = Len(leave_requests) + 1,
                                     !.pc = "create_log"]]
  /\ UNCHANGED <<leave_balances, leave_balance_history, audit_logs, holidays, front>>

\* leave.py lines 77-79: the audit entry and its commit
CreateLog(p) ==
  /\ h[p].pc = "create_log"
  /\ audit_logs' = log_action(audit_logs, h[p].rid, "created", h[p].actor, NoneText)
  /\ h' = [h EXCEPT ![p] = [@ EXCEPT !.pc = "notify"]]
  /\ UNCHANGED <<leave_requests, leave_balances, leave_balance_history, holidays, front>>

----------------------------------------------------------------------------
(* services/whatsapp.py and the end of the four operations *)

\* send_text letting the exception of a failed delivery through
notified_or_raised(f, delivered) ==
  IF delivered THEN Finish([f EXCEPT !.sent = TRUE]) ELSE Raise(f, "HTTPStatusError")

\* WhatsAppService.send_text: True when the message was delivered; missing
\* credentials, an HTTP error status and every other exception are caught and
\* give False.  The caller ignores the value and returns the request.
notified(f, delivered) == Finish([f EXCEPT !.sent = delivered])

\* leave.py lines 81-109, 142-154, 181-193 and 228-235: after the commit the
\* users are read and the employee is sent the message (create also notifies
\* the manager, inside a try/except); no statement writes to the session
Notify(p) ==
  /\ h[p].pc = "notify"
  /\ \E delivered \in BOOLEAN : h' = [h EXCEPT ![p] = notified(@, delivered)]
  /\ UNCHANGED db

----------------------------------------------------------------------------
(* routes/account_requests.py: approve_account_request *)

\* SELECT * FROM account_creation_requests WHERE id = :request_id
select_account_request(rid) ==
  IF rid \in 1 .. Len(account_creation_requests)
  THEN <<account_creation_requests[rid]>> ELSE <<>>

\* the checks without the test of the status
account_check_found(found) ==
  IF found = <<>> THEN "Account request not found" ELSE "none"

\* lines 176-180: the HTTP errors before anything is written
account_check(found) ==
  IF found = <<>> THEN "Account request not found"
  ELSE IF found[1].status # "pending" THEN "Request already processed"
  ELSE "none"

\* SELECT * FROM users WHERE phone = :phone finds a row
phone_registered(phone) == \E i \in 1 .. Len(users) : users[i].phone = phone

\* another session has flushed the INSERT of a user with this phone and not
\* yet committed: an INSERT of the same phone waits for it
PhoneHeld(p, phone) ==
  \E q \in Procs \ {p} : h[q].pc = "account_commit" /\ h[q].req[1].phone = phone

\* lines 198-204: the balance row of the new user
account_balance ==
  [casual |-> Days(12), sick |-> Days(12), special |-> Days(5), year |-> YearOf(Today)]

\* lines 208-209
account_approved(admin) == [status |-> "approved", approved_by |-> admin]
\* lines 237-239
account_rejected(admin, reason) ==
  [status |-> "rejected", rejection_reason |-> reason, approved_by |-> admin]

\* lines 171-182 and 234: the request is read and tested
AccountRead(p, rids) ==
  /\ h[p].pc = "idle"
  /\ \E rid \in rids, is_approved \in BOOLEAN, admin \in Managers, reason \in Reasons :
       LET found == select_account_request(rid)
           f == [Idle EXCEPT !.op = "approve_account_request", !.rid = rid,
                             !.actor = admin, !.req = found, !.reason = reason,
                             !.inp = <<[approved |-> is_approved]>>]
       IN h' = [h EXCEPT ![p] =
                  IF account_check(found) # "none"
                  THEN Raise(f, account_check(found))
                  ELSE IF is_approved THEN [f EXCEPT !.pc = "account_user"]
                  ELSE [f EXCEPT !.pc = "account_reject"]]
  /\ UNCHANGED db

\* lines 184-193: INSERT of the user at the flush; a registered phone raises
\* IntegrityError, which nothing catches
AccountUser(p) ==
  /\ h[p].pc = "account_user"
  /\ ~PhoneHeld(p, h[p].req[1].phone)
  /\ h' = [h EXCEPT ![p] =
             IF phone_registered(h[p].req[1].phone)
             THEN Raise(@, "IntegrityError")
             ELSE [@ EXCEPT !.pc = "account_commit"]]
  /\ UNCHANGED db

\* lines 195-211: the balance row of a non-admin user, the request's new
\* status and the commit of all three
AccountCommit(p) ==
  /\ h[p].pc = "account_commit"
  /\ LET r == h[p].req[1]
         uid == Len(users) + 1
     IN /\ users' = Append(users, User(r.phone, r.requested_role))
        /\ leave_balances' =
             IF r.requested_role # "admin"
             THEN [x \in DOMAIN leave_balances \cup {uid} |->
                     IF x = uid THEN account_balance ELSE leave_balances[x]]
             ELSE leave_balances
        /\ account_creation_requests' =
             [account_creation_requests EXCEPT
                ![h[p].rid] = FlushRow(@, r, account_approved(h[p].actor))]
        /\ h' = [h EXCEPT ![p] = [@ EXCEPT !.ret = <<uid>>, !.pc = "account_notify"]]
  /\ UNCHANGED <<leave_requests, leave_balance_history, audit_logs, holidays,
                 processed_messages, commands>>

\* lines 235-241: the request's new status and the commit
AccountReject(p) ==
  /\ h[p].pc = "account_reject"
  /\ account_creation_requests' =
       [account_creation_requests EXCEPT
          ![h[p].rid] = FlushRow(@, h[p].req[1], account_rejected(h[p].actor, h[p].reason))]
  /\ h' = [h EXCEPT ![p] = [@ EXCEPT !.pc = "account_notify"]]
  /\ UNCHANGED <<leave_requests, leave_balances, leave_balance_history, audit_logs,
                 holidays, users, processed_messages, commands>>

\* lines 213-218 and 243-248: the requester is looked up by
\* request_obj.requester_id; the model's column is requested_by, so the
\* attribute access raises AttributeError after the commit
AccountNotify(p) ==
  /\ h[p].pc = "account_notify"
  /\ h' = [h EXCEPT ![p] = Raise(@, "AttributeError")]
  /\ UNCHANGED db

----------------------------------------------------------------------------
(* routes/webhook.py: handle_webhook *)

\* an INSERT into processed_messages that never meets a duplicate
insert_is_duplicate_never(m) == FALSE

\* lines 142-146: SELECT * FROM processed_messages WHERE message_id = :m finds a row
already_processed(m) == m \in processed_messages

\* lines 149-157: the INSERT violates the unique index on message_id; the
\* driver's message names the duplicate key and the unique constraint
insert_is_duplicate(m) == m \in processed_messages

\* the answer to a message that was recorded before
acknowledged(f) == Finish([f EXCEPT !.ret = <<"already processed">>])

\* lines 136-146: the message is taken from the body and looked up
WebhookRead(p, msgs, phones) ==
  /\ h[p].pc = "idle"
  /\ \E m \in msgs, phone \in phones :
       LET f == [Idle EXCEPT !.op = "handle_webhook", !.rid = m, !.inp = <<phone>>]
       IN h' = [h EXCEPT ![p] =
                  IF already_processed(m) THEN acknowledged(f)
                  ELSE [f EXCEPT !.pc = "webhook_mark"]]
  /\ UNCHANGED db

\* lines 148-157: INSERT of the message id and commit; a duplicate is rolled
\* back and acknowledged
WebhookMark(p) ==
  /\ h[p].pc = "webhook_mark"
  /\ IF insert_is_duplicate(h[p].rid)
     THEN /\ h' = [h EXCEPT ![p] = acknowledged(@)]
          /\ UNCHANGED processed_messages
     ELSE /\ processed_messages' = processed_messages \cup {h[p].rid}
          /\ h' = [h EXCEPT ![p] = [@ EXCEPT !.pc = "webhook_user"]]
  /\ UNCHANGED <<leave_requests, leave_balances, leave_balance_history, audit_logs,
                 holidays, users, account_creation_requests, commands>>

\* lines 161-169: the read receipt, the typing indicator and get_user_by_phone
WebhookUser(p) ==
  /\ h[p].pc = "webhook_user"
  /\ h' = [h EXCEPT ![p] =
             [@ EXCEPT !.pc = IF phone_registered(h[p].inp[1])
                              THEN "webhook_process" ELSE "webhook_register"]]
  /\ UNCHANGED db

\* lines 171-209: an unknown sender is registered as a worker and welcomed; the
\* message is not processed any further
WebhookRegister(p) ==
  /\ h[p].pc = "webhook_register"
  /\ ~PhoneHeld(p, h[p].inp[1])
  /\ IF phone_registered(h[p].inp[1])
     THEN /\ h' = [h EXCEPT ![p] = Raise(@, "IntegrityError")]
          /\ UNCHANGED users
     ELSE /\ users' = Append(users, User(h[p].inp[1], "worker"))
          /\ h' = [h EXCEPT ![p] = Finish(@)]
  /\ UNCHANGED <<leave_requests, leave_balances, leave_balance_history, audit_logs,
                 holidays, account_creation_requests, processed_messages, commands>>

\* lines 211-227: the command of the message is run (process_text_message or
\* handle_media_message)
WebhookProcess(p) ==
  /\ h[p].pc = "webhook_process"
  /\ commands[h[p].rid] < MaxCommands
  /\ commands' = [commands EXCEPT ![h[p].rid] = @ + 1]
  /\ h' = [h EXCEPT ![p] = Finish(@)]
  /\ UNCHANGED <<leave_requests, leave_balances, leave_balance_history, audit_logs,
                 holidays, users, account_creation_requests, processed_messages>>

----------------------------------------------------------------------------
\* the response is sent and the session closed
Return(p) ==
  /\ h[p].pc = "done"
  /\ h' = [h EXCEPT ![p] = Idle]
  /\ UNCHANGED db

----------------------------------------------------------------------------
(* The database the runs start from *)

\* a request as approve_leave leaves it
approved(r, approver) ==
  [r EXCEPT !.status = "approved", !.approved_by = approver, !.approved_at = Stamped]

\* the users the runs start with: the workers and an administrator
StartUsers ==
  [u \in 1 .. (NumUsers + 1) |-> User(u, IF u \in Managers THEN "admin" ELSE "worker")]

\* the account requests the runs start with: a pending one for a worker, a
\* pending one for an administrator and one that was approved
SeededAccounts ==
  <<AccountCreationRequest(NumUsers + 2, "worker"),
    AccountCreationRequest(NumUsers + 3, "admin"),
    [AccountCreationRequest(NumUsers + 4, "worker") EXCEPT
       !.status = "approved", !.approved_by = NumUsers + 1]>>

\* the accounts and the webhook's tables at the start: no message has arrived
Registered ==
  /\ users = StartUsers
  /\ account_creation_requests = SeededAccounts
  /\ processed_messages = {}
  /\ commands = [m \in MessageIds |-> 0]

\* User 1 took eleven days of casual leave earlier: the three weeks that end
\* yesterday, approved and debited, so that one day of casual leave is left.
EarlierLeave ==
  LET s == Today - 15
      e == Today - 1
  IN approved(new_request([user_id |-> 1, start_date |-> s, end_date |-> e,
                           leave_type |-> "casual", duration_type |-> "full"],
                          calculate_working_days(s, e, {})),
              NumUsers + 1)

LowBalance == [DefaultBalance EXCEPT !.casual = @ - EarlierLeave.days]

EarlierLogs ==
  SetToBag({AuditLog(1, "created", 1, NoneText),
            AuditLog(1, "approved", NumUsers + 1, NoneText)})

Init ==
  /\ leave_requests = <<EarlierLeave>>
  /\ leave_balances = (1 :> LowBalance)
  /\ leave_balance_history = EmptyBag
  /\ audit_logs = EarlierLogs
  /\ holidays = {}
  /\ h = [p \in Procs |-> Idle]
  /\ Registered

\* the create calls of the lifecycle runs: today and the last day, whole days,
\* casual or special leave
LifecycleInputs ==
  CreateInputs(Users, {Today, Today + DaysAhead}, {"casual", "special"}, {FALSE})

\* the create calls of the concurrent runs: user 2, who has no balance row yet,
\* asks for the last day
ConcInputs == CreateInputs({2}, {Today + DaysAhead}, {"casual"}, {FALSE})

\* the create calls of the validation runs: every range of dates, half days too
ValidationInputs == CreateInputs(Users, Dates, {"casual", "sick"}, BOOLEAN)

\* a pending whole-day request of user u for the day d
pending_day(u, d, t) ==
  new_request([user_id |-> u, start_date |-> d, end_date |-> d, leave_type |-> t,
               duration_type |-> "full"],
              calculate_working_days(d, d, {}))

\* User 1, with one day of casual leave left, has asked for today and for the
\* last day: two pending one-day requests.
InitRace ==
  /\ leave_requests = <<EarlierLeave, pending_day(1, Today, "casual"),
                        pending_day(1, Today + DaysAhead, "casual")>>
  /\ leave_balances = (1 :> LowBalance)
  /\ leave_balance_history = EmptyBag
  /\ audit_logs = EarlierLogs (+) SetToBag({AuditLog(2, "created", 1, NoneText),
                                            AuditLog(3, "created", 1, NoneText)})
  /\ holidays = {}
  /\ h = [p \in Procs |-> Idle]
  /\ Registered

\* User 1, with one day of casual leave left, has asked for today.
InitConc ==
  /\ leave_requests = <<EarlierLeave, pending_day(1, Today, "casual")>>
  /\ leave_balances = (1 :> LowBalance)
  /\ leave_balance_history = EmptyBag
  /\ audit_logs = EarlierLogs (+) SetToBag({AuditLog(2, "created", 1, NoneText)})
  /\ holidays = {}
  /\ h = [p \in Procs |-> Idle]
  /\ Registered

\* the holidays table of the validation runs: empty, or yesterday, or the last day
HolidaySets == {{}, {Today - 1}, {Today + DaysAhead}}

\* the database of the validation runs: that of Init with registered holidays
InitCreate ==
  /\ leave_requests = <<EarlierLeave>>
  /\ leave_balances = (1 :> LowBalance)
  /\ leave_balance_history = EmptyBag
  /\ audit_logs = EarlierLogs
  /\ holidays \in HolidaySets
  /\ h = [p \in Procs |-> Idle]
  /\ Registered

\* the balance row seed_demo_data.py inserts (year=2025), read in the year after
SeededBalance == [DefaultBalance EXCEPT !.year = YearOf(Today) - 1]

\* the database of the new-year runs: user 1 has the seeded row of last year,
\* user 2 has no row
InitYear ==
  /\ leave_requests = <<EarlierLeave>>
  /\ leave_balances = (1 :> SeededBalance)
  /\ leave_balance_history = EmptyBag
  /\ audit_logs = EarlierLogs
  /\ holidays = {}
  /\ h = [p \in Procs |-> Idle]
  /\ Registered

Create(p, inputs) ==
  \/ CreateBegin(p, inputs)
  \/ CreateOverlap(p)
  \/ CreateBalance(p)
  \/ CreateBalanceInsert(p)
  \/ CreateInsert(p)
  \/ CreateLog(p)

Approve(p, rids) ==
  \/ ApproveRead(p, rids)
  \/ ApproveDeduct(p)
  \/ ApproveDeductCommit(p)
  \/ ApproveCommit(p)

Reject(p, rids) ==
  \/ RejectRead(p, rids)
  \/ RejectCommit(p)

Cancel(p, rids) ==
  \/ CancelRead(p, rids)
  \/ CancelRefund(p)
  \/ CancelRefundCommit(p)
  \/ CancelCommit(p)

GetBalance(p) ==
  \/ BalanceRead(p)
  \/ BalanceCreate(p)

CarryForward(p) ==
  \/ CarryRead(p)
  \/ CarryCommit(p)

\* one handler at a time
Next ==
  \E p \in {1} :
    \/ Create(p, LifecycleInputs)
    \/ Approve(p, RequestIds)
    \/ Reject(p, RequestIds)
    \/ Cancel(p, RequestIds)
    \/ GetBalance(p)
    \/ CarryForward(p)
    \/ Notify(p)
    \/ Return(p)

\* the requests the concurrent decisions are about: the two pending ones
RaceIds == {2, 3}

\* two handlers at a time: the decisions on stored requests
NextDecide ==
  \E p \in Procs :
    \/ Approve(p, RaceIds)
    \/ Reject(p, RaceIds)
    \/ Cancel(p, RaceIds)
    \/ Notify(p)
    \/ Return(p)

\* the request the decisions of the concurrent runs are about: the pending one
ConcIds == {2}

\* two handlers at a time: every operation
NextConc ==
  \E p \in Procs :
    \/ Create(p, ConcInputs)
    \/ Approve(p, ConcIds)
    \/ Reject(p, ConcIds)
    \/ Cancel(p, ConcIds)
    \/ GetBalance(p)
    \/ CarryForward(p)
    \/ Notify(p)
    \/ Return(p)

\* one handler at a time: create calls
NextCreate ==
  \E p \in {1} :
    \/ Create(p, ValidationInputs)
    \/ Notify(p)
    \/ Return(p)

----------------------------------------------------------------------------
(* The validator's functions applied to arguments of the caller's choice *)

\* the calendar of the calls: whole weeks from a Monday on
CalcDates == 0 .. (7 * CalcWeeks - 1)

\* the holiday tables of the calls: any of a Tuesday, a Thursday, a Saturday
\* and the Tuesday after
CalcHolidays == SUBSET {1, 3, 5, 8}

InitDays ==
  /\ leave_requests = <<EarlierLeave>>
  /\ leave_balances = (1 :> LowBalance)
  /\ leave_balance_history = EmptyBag
  /\ audit_logs = EarlierLogs
  /\ holidays \in CalcHolidays
  /\ h = [p \in Procs |-> Idle]
  /\ Registered

\* a call of _calculate_working_days(start_date, end_date, holidays)
WorkingDays(p, dates) ==
  /\ h[p].pc = "idle"
  /\ \E start_date \in dates, end_date \in dates :
       h' = [h EXCEPT ![p] =
               Finish([Idle EXCEPT
                         !.op = "working_days",
                         !.inp = <<[start_date |-> start_date, end_date |-> end_date]>>,
                         !.days = calculate_working_days(start_date, end_date, holidays)])]
  /\ UNCHANGED db

NextDays ==
  \E p \in {1} :
    \/ WorkingDays(p, CalcDates)
    \/ Return(p)

\* a stored whole-day request in one of the four states: pending as create
\* leaves it, approved or rejected by the manager, cancelled while pending
stored_as(r, status) ==
  CASE status = "pending" -> r
    [] status = "approved" -> approved(r, NumUsers + 1)
    [] status = "rejected" ->
         [r EXCEPT !.status = "rejected", !.approved_by = NumUsers + 1,
                   !.approved_at = Stamped, !.rejection_reason = "busy"]
    [] status = "cancelled" -> [r EXCEPT !.status = "cancelled"]

\* the ranges of the date window that hold a working day
StoredRanges ==
  {rg \in Dates \X Dates : rg[1] <= rg[2] /\ calculate_working_days(rg[1], rg[2], {}) > 0}

\* the requests a user can have in the date window: any range with a working
\* day, in any state
StoredRows ==
  {stored_as(new_request([user_id |-> u, start_date |-> rg[1], end_date |-> rg[2],
                          leave_type |-> "casual", duration_type |-> "full"],
                         calculate_working_days(rg[1], rg[2], {})),
             status) :
     u \in Users, status \in LeaveStatus, rg \in StoredRanges}

InitOverlap ==
  /\ leave_requests \in {<<EarlierLeave, r>> : r \in StoredRows}
  /\ leave_balances = (1 :> LowBalance)
  /\ leave_balance_history = EmptyBag
  /\ audit_logs = EarlierLogs
  /\ holidays = {}
  /\ h = [p \in Procs |-> Idle]
  /\ Registered

\* a call of _check_overlap(user_id, start_date, end_date)
CheckOverlap(p, callers, dates) ==
  /\ h[p].pc = "idle"
  /\ \E user_id \in callers, start_date \in dates, end_date \in dates :
       h' = [h EXCEPT ![p] =
               Finish([Idle EXCEPT
                         !.op = "check_overlap", !.actor = user_id,
                         !.inp = <<[user_id |-> user_id, start_date |-> start_date,
                                    end_date |-> end_date]>>,
                         !.ret = <<check_overlap(user_id, start_date, end_date)>>])]
  /\ UNCHANGED db

NextOverlap ==
  \E p \in {1} :
    \/ CheckOverlap(p, Users, Dates)
    \/ Return(p)

\* one handler at a time: the operations that read or write balance rows
NextYear ==
  \E p \in {1} :
    \/ GetBalance(p)
    \/ CarryForward(p)
    \/ Create(p, LifecycleInputs)
    \/ Notify(p)
    \/ Return(p)

Account(p, rids) ==
  \/ AccountRead(p, rids)
  \/ AccountUser(p)
  \/ AccountCommit(p)
  \/ AccountReject(p)
  \/ AccountNotify(p)

Webhook(p, msgs, phones) ==
  \/ WebhookRead(p, msgs, phones)
  \/ WebhookMark(p)
  \/ WebhookUser(p)
  \/ WebhookRegister(p)
  \/ WebhookProcess(p)

\* the senders of the messages: a registered worker and the phone of the
\* pending account request
WebhookPhones == {1, NumUsers + 2}

\* the account requests the decisions are about: the stored ones and one more
AccountIds == 1 .. (Len(SeededAccounts) + 1)

\* two handlers at a time: deliveries of messages
NextWebhook ==
  \E p \in Procs :
    \/ Webhook(p, MessageIds, WebhookPhones)
    \/ Return(p)

\* one handler at a time: decisions on account requests and deliveries of messages
NextAccounts ==
  \E p \in {1} :
    \/ Account(p, AccountIds)
    \/ Webhook(p, MessageIds, WebhookPhones)
    \/ Return(p)

\* two handlers at a time: create calls
NextBook ==
  \E p \in Procs :
    \/ Create(p, LifecycleInputs)
    \/ Notify(p)
    \/ Return(p)

Spec == Init /\ [][Next]_vars
SpecDecide == InitRace /\ [][NextDecide]_vars
SpecConc == InitConc /\ [][NextConc]_vars
SpecCreate == InitCreate /\ [][NextCreate]_vars
SpecYear == InitYear /\ [][NextYear]_vars
SpecDays == InitDays /\ [][NextDays]_vars
SpecOverlap == InitOverlap /\ [][NextOverlap]_vars
SpecBook == Init /\ [][NextBook]_vars
SpecWebhook == Init /\ [][NextWebhook]_vars
SpecAccounts == Init /\ [][NextAccounts]_vars

----------------------------------------------------------------------------
(* Properties of approve_leave, reject_leave and cancel_leave *)

\* handler p has finished an approve call that got past the NOT_FOUND and
\* ALREADY_PROCESSED checks
ApproveDecided(p) ==
  /\ h[p].op = "approve"
  /\ h[p].pc = "done"
  /\ h[p].result \notin {"NOT_FOUND", "ALREADY_PROCESSED"}

\* C1: when deduct_balance fails during an approve (no balance row, or fewer
\* days left than the request asks for), the approve call ends with an error
\* and the request is still pending, with no approver and no approval time.
C1_FailedDebitAbortsApproval ==
  \A p \in Procs :
    (ApproveDecided(p) /\ ~h[p].debited) =>
      /\ h[p].result # "ok"
      /\ leave_requests[h[p].rid].status = "pending"
      /\ leave_requests[h[p].rid].approved_by = NoneId
      /\ leave_requests[h[p].rid].approved_at = NoneTime

\* the audit entries of the database the decision runs start from
RaceLogs ==
  EarlierLogs (+) SetToBag({AuditLog(rid, "created", 1, NoneText) : rid \in RaceIds})

\* the two handlers have each finished an approve call, one for each of the two
\* pending requests, and no other decision was stored before: the audit log
\* holds nothing but the entries of these approvals
TwoApprovalsDone ==
  /\ \A p \in Procs : ApproveDecided(p)
  /\ {h[p].rid : p \in Procs} = RaceIds
  /\ \A e \in BagToSet(audit_logs) :
       \/ e \in BagToSet(RaceLogs)
       \/ e.action = "approved" /\ e.leave_request_id \in RaceIds
            /\ CopiesIn(e, audit_logs) = 1

\* C2: with one day of casual leave left and two pending one-day casual
\* requests, two approve calls, one per request, in any interleaving, end with
\* exactly one request approved and the other call refused for insufficient
\* balance.
C2_OneOfTwoApprovalsSucceeds ==
  TwoApprovalsDone =>
    /\ Cardinality({p \in Procs : h[p].result = "ok"}) = 1
    /\ Cardinality({p \in Procs : h[p].result = "INSUFFICIENT_BALANCE"}) = 1
    /\ Cardinality({rid \in RaceIds : leave_requests[rid].status = "approved"}) = 1

\* the changes of status the life cycle allows
AllowedChanges ==
  {<<"pending", "approved">>, <<"pending", "rejected">>, <<"pending", "cancelled">>,
   <<"approved", "cancelled">>}

\* C3: every committed change of a request's status is pending -> approved,
\* pending -> rejected, pending -> cancelled or approved -> cancelled, also when
\* the steps of calls on the same request interleave.
C3_StatusChangesFollowLifeCycle ==
  [][\A rid \in DOMAIN leave_requests :
       \/ leave_requests'[rid].status = leave_requests[rid].status
       \/ <<leave_requests[rid].status, leave_requests'[rid].status>> \in AllowedChanges]_vars

\* handler q has finished a cancel call that found the request approved and
\* credited its days back
CancelRefunded(q) ==
  /\ h[q].op = "cancel"
  /\ h[q].pc = "done"
  /\ h[q].result = "ok"
  /\ h[q].credited

\* the balance of the request's category that the approve call of handler p
\* leaves: what it read, less the days if it debited them
LeftByApprove(p) ==
  IF h[p].debited THEN h[p].current - leave_requests[h[p].rid].days ELSE h[p].current

\* C4: approve followed by cancel is a round trip on the balance: when handler
\* p's approve of a request has succeeded and handler q's cancel of the same
\* request then read the balance as the approve left it and credited the days
\* back, the balance of the request's category is again what the approve read.
\* (Neither call writes another category.)
C4_CancelReversesApprove ==
  \A p, q \in Procs :
    (/\ ApproveDecided(p) /\ h[p].result = "ok"
     /\ CancelRefunded(q) /\ h[q].rid = h[p].rid
     /\ h[q].current = LeftByApprove(p)
     /\ leave_balances[leave_requests[h[p].rid].user_id][leave_requests[h[p].rid].leave_type]
          = h[q].current + leave_requests[h[p].rid].days)
    => leave_balances[leave_requests[h[p].rid].user_id][leave_requests[h[p].rid].leave_type]
         = h[p].current

----------------------------------------------------------------------------
(* Properties of the balance history *)

\* the history entry the claim asks for: user, category, change, resulting
\* balance and request
history_entry(rid, days_changed, balance_after) ==
  [user_id |-> leave_requests[rid].user_id, leave_type |-> leave_requests[rid].leave_type,
   days_changed |-> days_changed, balance_after |-> balance_after,
   leave_request_id |-> rid]

\* C5: a debit on approve has appended exactly one history entry with the
\* change -days, and a refund on cancel exactly one with the change +days, each
\* with the user, the category, the resulting balance and the request id.
C5_BalanceChangesAreRecorded ==
  /\ \A p \in Procs :
       (ApproveDecided(p) /\ h[p].debited) =>
         CopiesIn(history_entry(h[p].rid, 0 - leave_requests[h[p].rid].days,
                                h[p].current - leave_requests[h[p].rid].days),
                  leave_balance_history) = 1
  /\ \A q \in Procs :
       CancelRefunded(q) =>
         CopiesIn(history_entry(h[q].rid, leave_requests[h[q].rid].days,
                                h[q].current + leave_requests[h[q].rid].days),
                  leave_balance_history) = 1

\* a carry-forward of this year is on record for user u
CarriedForward(u) ==
  \E e \in BagToSet(leave_balance_history) :
    e.user_id = u /\ e.leave_request_id = NoneId

\* C6: carry-forward is idempotent per user and year: a run that commits when a
\* carry-forward of the year is already on record for a user leaves the user's
\* balance as it is and records nothing more for the user.
C6_CarryForwardIsIdempotent ==
  [][\A p \in Procs :
       (h[p].op = "carry_forward" /\ h[p].pc = "carry_commit" /\ h'[p].pc = "done") =>
         \A u \in DOMAIN leave_balances :
           CarriedForward(u) =>
             /\ leave_balances'[u] = leave_balances[u]
             /\ \A e \in BagToSet(leave_balance_history') :
                  e.user_id = u =>
                    CopiesIn(e, leave_balance_history') = CopiesIn(e, leave_balance_history)]_vars

----------------------------------------------------------------------------
(* Properties of create_leave_request *)

\* handler p has finished a create call
CreateDone(p) == h[p].op = "create" /\ h[p].pc = "done"

\* the stored row r and the range [s, e] have a calendar day in common
SharesDay(r, s, e) == \E d \in s .. e : r.start_date <= d /\ d <= r.end_date

\* a pending or approved request of the caller, other than the one the call
\* itself stored, has a day in common with the range of handler p's create call
Clash(p) ==
  \E i \in DOMAIN leave_requests \ {h[p].rid} :
    /\ leave_requests[i].user_id = h[p].inp[1].user_id
    /\ leave_requests[i].status \in {"pending", "approved"}
    /\ SharesDay(leave_requests[i], h[p].inp[1].start_date, h[p].inp[1].end_date)

\* handler p's create call was refused for overlap and stored nothing
RefusedForOverlap(p) == h[p].result = "OVERLAPPING_LEAVE" /\ h[p].rid = NoneId

\* C7 as stated: every create whose range shares a day with a pending or
\* approved request of the user fails with OVERLAPPING_LEAVE and stores
\* nothing; a create that shares no day is not refused for overlap.
C7_OverlapAlwaysRefused ==
  \A p \in Procs :
    CreateDone(p) =>
      /\ Clash(p) => RefusedForOverlap(p)
      /\ ~Clash(p) => h[p].result # "OVERLAPPING_LEAVE"

\* the date checks that validate_leave_request makes before the overlap query
\* have accepted the call
DatesAccepted(p) ==
  h[p].result \notin {"INVALID_DATE_RANGE", "PAST_DATE", "NO_WORKING_DAYS"}

\* C7: a create that passes the date checks and whose range shares a day with
\* a pending or approved request of the user fails with OVERLAPPING_LEAVE and
\* stores nothing; a create that shares no day with one (adjacent ranges
\* included) is not refused for overlap.
C7_OverlapRefusedAfterDateChecks ==
  \A p \in Procs :
    (CreateDone(p) /\ DatesAccepted(p)) =>
      /\ Clash(p) => RefusedForOverlap(p)
      /\ ~Clash(p) => h[p].result # "OVERLAPPING_LEAVE"

\* a create was refused for overlap with a stored request that begins after the
\* new range begins and ends before it ends
C7_Witness ==
  \E p \in Procs :
    /\ CreateDone(p) /\ RefusedForOverlap(p)
    /\ \E i \in DOMAIN leave_requests :
         /\ leave_requests[i].user_id = h[p].inp[1].user_id
         /\ leave_requests[i].status = "pending"
         /\ h[p].inp[1].start_date < leave_requests[i].start_date
         /\ leave_requests[i].end_date < h[p].inp[1].end_date

----------------------------------------------------------------------------
(* Properties of the balances *)

\* C8: every counter of every balance row is at least 0, whatever the
\* interleaving of create, approve, reject, cancel, get_balance and
\* carry-forward.
C8_BalancesNeverNegative ==
  \A u \in DOMAIN leave_balances :
    \A t \in LeaveType : leave_balances[u][t] >= 0

\* an approve has read a balance of zero, left by another approve, and its
\* debit is refused
C8_Witness ==
  \E p \in Procs :
    /\ h[p].op = "approve" /\ h[p].pc = "approve_commit" /\ ~h[p].debited
    /\ h[p].bal # EmptyTable
    /\ h[p].current = 0
    /\ leave_balances[h[p].req[1].user_id][h[p].req[1].leave_type] = 0
    /\ \E i \in DOMAIN leave_requests : leave_requests[i].status = "pending"

\* handler p's approve call has read a balance of the request's category that
\* is smaller than the request's day count
DebitTooLarge(p) ==
  /\ h[p].op = "approve"
  /\ h[p].pc \in {"approve_deduct_commit", "approve_commit"}
  /\ ~h[p].debited
  /\ h[p].bal # EmptyTable
  /\ h[p].current < h[p].req[1].days

\* C9: a debit of more days than the balance of the category holds fails: the
\* steps of the call that follow write no balance row and the call records no
\* debit.
C9_FailedDebitLeavesBalance ==
  [][\A p \in Procs :
       (DebitTooLarge(p) /\ h'[p] # h[p]) =>
         /\ leave_balances' = leave_balances
         /\ ~h'[p].debited]_vars

\* a debit was refused and the balance row is as it was read
C9_Witness ==
  \E p \in Procs :
    /\ DebitTooLarge(p)
    /\ h[p].pc = "approve_commit"
    /\ leave_balances[h[p].req[1].user_id] = h[p].bal[h[p].req[1].user_id]

\* C10: an approve call that succeeds stores the request as approved with the
\* approver and the approval time and leaves the balance of the request's
\* category at what it read less the request's days; no step of the call
\* changes another request, another user's balance row or another category.
C10_ApproveDebitsExactly ==
  [][\A p \in Procs :
       (h'[p].op = "approve" /\ h'[p] # h[p] /\ h'[p].rid \in DOMAIN leave_requests) =>
         LET rid == h'[p].rid
             r == leave_requests[rid]
         IN /\ \A i \in DOMAIN leave_requests \ {rid} :
                 leave_requests'[i] = leave_requests[i]
            /\ DOMAIN leave_balances' = DOMAIN leave_balances
            /\ \A u \in DOMAIN leave_balances \ {r.user_id} :
                 leave_balances'[u] = leave_balances[u]
            /\ r.user_id \in DOMAIN leave_balances =>
                 \A t \in LeaveType \ {r.leave_type} :
                   leave_balances'[r.user_id][t] = leave_balances[r.user_id][t]
            /\ h'[p].pc = "notify" =>
                 /\ leave_requests'[rid].status = "approved"
                 /\ leave_requests'[rid].approved_by = h'[p].actor
                 /\ leave_requests'[rid].approved_at = Stamped
                 /\ r.user_id \in DOMAIN leave_balances'
                 /\ leave_balances'[r.user_id][r.leave_type] = h[p].current - r.days]_vars

----------------------------------------------------------------------------
(* Properties of the checks that approve, reject and cancel make first *)

\* C11: approve and reject fail with NOT_FOUND when the request id does not
\* exist and with ALREADY_PROCESSED when the request is not pending; the call
\* then ends at once and no table is changed.  A pending request passes both
\* checks.
C11_MissingOrDecidedIsRefused ==
  [][\A p \in Procs :
       (h[p].pc = "idle" /\ h'[p].op \in {"approve", "reject"}) =>
         LET rid == h'[p].rid
         IN /\ rid \notin DOMAIN leave_requests =>
                 /\ h'[p].pc = "done" /\ h'[p].result = "NOT_FOUND"
                 /\ UNCHANGED db
            /\ (rid \in DOMAIN leave_requests /\ leave_requests[rid].status # "pending") =>
                 /\ h'[p].pc = "done" /\ h'[p].result = "ALREADY_PROCESSED"
                 /\ UNCHANGED db
            /\ (rid \in DOMAIN leave_requests /\ leave_requests[rid].status = "pending") =>
                 h'[p].result = "none"]_vars

\* an approve of a request that was rejected before has been refused
C11_Witness ==
  \E p \in Procs :
    /\ h[p].op = "approve" /\ h[p].pc = "done"
    /\ h[p].result = "ALREADY_PROCESSED"
    /\ leave_requests[h[p].rid].status = "rejected"
    /\ leave_requests[h[p].rid].approved_by # NoneId

\* C12: cancel fails with NOT_FOUND when the request does not exist, else with
\* FORBIDDEN when the caller is not the request's owner, else with
\* INVALID_STATUS when the request is neither pending nor approved; the call
\* then ends at once and no table is changed, so a caller who is not the owner
\* changes no status and triggers no refund.
C12_CancelChecksInOrder ==
  [][\A p \in Procs :
       (h[p].pc = "idle" /\ h'[p].op = "cancel") =>
         LET rid == h'[p].rid
             user == h'[p].actor
             refused(code) == /\ h'[p].pc = "done" /\ h'[p].result = code
                              /\ UNCHANGED db
         IN IF rid \notin DOMAIN leave_requests THEN refused("NOT_FOUND")
            ELSE IF leave_requests[rid].user_id # user THEN refused("FORBIDDEN")
            ELSE IF leave_requests[rid].status \notin {"pending", "approved"}
                 THEN refused("INVALID_STATUS")
            ELSE h'[p].result = "none"]_vars

\* a cancel by a user who is not the owner, of a request that is neither
\* pending nor approved, has been refused as forbidden
C12_Witness ==
  \E p \in Procs :
    /\ h[p].op = "cancel" /\ h[p].pc = "done"
    /\ h[p].result = "FORBIDDEN"
    /\ leave_requests[h[p].rid].user_id # h[p].actor
    /\ leave_requests[h[p].rid].status \in {"rejected", "cancelled"}

----------------------------------------------------------------------------
(* Properties of the effects of cancel, reject and create *)

\* C13: a cancel by the owner that passes the checks stores the status
\* cancelled; when the request was approved it credits the request's days once
\* to the owner's balance of the request's category, and when the request was
\* pending no step of it changes a balance row.
C13_CancelRefundsApprovedOnly ==
  [][\A p \in Procs :
       (h'[p].op = "cancel" /\ h'[p] # h[p] /\ h'[p].result \in {"none", "ok"}) =>
         LET r == IF h[p].req # <<>> THEN h[p].req[1] ELSE h'[p].req[1]
         IN /\ r.status = "pending" =>
                 leave_balances' = leave_balances /\ ~h'[p].credited
            /\ r.status = "approved" =>
                 \/ leave_balances' = leave_balances /\ h'[p].credited = h[p].credited
                 \/ /\ ~h[p].credited /\ h'[p].credited
                    /\ leave_balances' =
                         [leave_balances EXCEPT ![r.user_id][r.leave_type] = @ + r.days]
            /\ h'[p].pc = "notify" =>
                 /\ leave_requests'[h'[p].rid].status = "cancelled"
                 /\ r.status = "approved" => h'[p].credited]_vars

\* an approved request was cancelled and its days are back on the balance,
\* and a pending one was cancelled too
C13_Witness ==
  \E p \in Procs :
    /\ h[p].op = "cancel" /\ h[p].pc = "done" /\ h[p].result = "ok" /\ h[p].credited
    /\ leave_requests[h[p].rid].status = "cancelled"
    /\ leave_requests[h[p].rid].approved_by # NoneId
    /\ leave_balances[leave_requests[h[p].rid].user_id][leave_requests[h[p].rid].leave_type]
         = h[p].current + leave_requests[h[p].rid].days
    /\ \E i \in DOMAIN leave_requests :
         leave_requests[i].status = "cancelled" /\ leave_requests[i].approved_by = NoneId

\* C14: a reject that passes the checks stores the status rejected and the
\* rejection reason, and no step of it changes a balance row or the balance
\* history.
C14_RejectStoresReasonOnly ==
  [][\A p \in Procs :
       (h'[p].op = "reject" /\ h'[p] # h[p]) =>
         /\ leave_balances' = leave_balances
         /\ leave_balance_history' = leave_balance_history
         /\ h'[p].pc = "notify" =>
              /\ leave_requests'[h'[p].rid].status = "rejected"
              /\ leave_requests'[h'[p].rid].rejection_reason = h'[p].reason
              /\ \A i \in DOMAIN leave_requests \ {h'[p].rid} :
                   leave_requests'[i] = leave_requests[i]]_vars

\* a pending request was rejected and the reason is stored with it
C14_Witness ==
  \E p \in Procs :
    /\ h[p].op = "reject" /\ h[p].pc = "done" /\ h[p].result = "ok"
    /\ leave_requests[h[p].rid].status = "rejected"
    /\ leave_requests[h[p].rid].rejection_reason \in Reasons

\* the days of [s, e] that are neither a Saturday, a Sunday nor a holiday
WorkingDates(s, e) == {d \in s .. e : d % 7 \notin {5, 6} /\ d \notin holidays}

\* the day count of a create call: half a day, or the working days of its range
ExpectedDays(inp) ==
  IF inp.is_half_day THEN HalfDay
  ELSE Days(Cardinality(WorkingDates(inp.start_date, inp.end_date)))

\* C15: a create that succeeds has stored exactly one new request, pending and
\* with the day count of its range, and no step of a create changes a counter
\* of a balance row or the balance history; the only balance write of a create
\* is the insert of the default row for a user who has none.
C15_CreateStoresOnePending ==
  [][\A p \in Procs :
       (h'[p].op = "create" /\ h'[p] # h[p]) =>
         /\ \A u \in DOMAIN leave_balances :
              u \in DOMAIN leave_balances' /\ leave_balances'[u] = leave_balances[u]
         /\ \A u \in DOMAIN leave_balances' \ DOMAIN leave_balances :
              leave_balances'[u] = DefaultBalance
         /\ leave_balance_history' = leave_balance_history
         /\ \/ leave_requests' = leave_requests
            \/ /\ h[p].rid = NoneId /\ h'[p].rid = Len(leave_requests) + 1
               /\ Len(leave_requests') = Len(leave_requests) + 1
               /\ SubSeq(leave_requests', 1, Len(leave_requests)) = leave_requests
               /\ LET inp == h[p].inp[1]
                      new == leave_requests'[h'[p].rid]
                  IN /\ new.status = "pending"
                     /\ new.user_id = inp.user_id
                     /\ new.start_date = inp.start_date /\ new.end_date = inp.end_date
                     /\ new.leave_type = inp.leave_type
                     /\ new.days = ExpectedDays(inp)
         /\ (h'[p].pc = "done" /\ h'[p].result = "ok") => h'[p].rid # NoneId
         /\ (h'[p].pc = "done" /\ h'[p].result # "ok") => h'[p].rid = NoneId]_vars

\* a create for half a day has succeeded for a user who had no balance row: the
\* request is pending with half a day and the user's row is the default one
C15_Witness ==
  \E p \in Procs :
    /\ CreateDone(p) /\ h[p].result = "ok"
    /\ h[p].inp[1].is_half_day
    /\ leave_requests[h[p].rid].status = "pending"
    /\ leave_requests[h[p].rid].days = HalfDay
    /\ h[p].actor # EarlierLeave.user_id
    /\ leave_balances[h[p].actor] = DefaultBalance

----------------------------------------------------------------------------
(* Properties of validate_leave_request *)

\* the balance a create call of user u is checked against: that of the user's
\* row, or of the default row when the user has none
BalanceFor(u, t) ==
  IF u \in DOMAIN leave_balances THEN leave_balances[u][t] ELSE DefaultBalance[t]

\* the first rule, in the order of the checks, that the create call of handler
\* p breaks ("ok" when it breaks none)
FirstBroken(p) ==
  LET inp == h[p].inp[1]
  IN IF inp.end_date < inp.start_date THEN "INVALID_DATE_RANGE"
     ELSE IF inp.start_date < Today THEN "PAST_DATE"
     ELSE IF ExpectedDays(inp) <= 0 THEN "NO_WORKING_DAYS"
     ELSE IF Clash(p) THEN "OVERLAPPING_LEAVE"
     ELSE IF BalanceFor(inp.user_id, inp.leave_type) < ExpectedDays(inp)
          THEN "INSUFFICIENT_BALANCE"
     ELSE "ok"

\* C16: a create call ends with the error of the first rule it breaks, in the
\* order INVALID_DATE_RANGE, PAST_DATE, NO_WORKING_DAYS, OVERLAPPING_LEAVE,
\* INSUFFICIENT_BALANCE, and with no error when it breaks none.
C16_FirstBrokenRuleIsReported ==
  \A p \in Procs : CreateDone(p) => h[p].result = FirstBroken(p)

\* a create that begins in the past, covers no working day and overlaps an
\* approved request was refused as a past date
C16_Witness ==
  \E p \in Procs :
    /\ CreateDone(p) /\ h[p].result = "PAST_DATE"
    /\ ~h[p].inp[1].is_half_day
    /\ h[p].inp[1].start_date <= h[p].inp[1].end_date
    /\ WorkingDates(h[p].inp[1].start_date, h[p].inp[1].end_date) = {}
    /\ Clash(p)

\* C17: a create call with end < start ends with INVALID_DATE_RANGE, whoever
\* the user, whatever the category and the half-day flag, and stores nothing.
C17_ReversedRangeIsRefused ==
  \A p \in Procs :
    (CreateDone(p) /\ h[p].inp[1].end_date < h[p].inp[1].start_date) =>
      h[p].result = "INVALID_DATE_RANGE" /\ h[p].rid = NoneId

\* a half-day create that begins in the past and ends before it begins was
\* refused for its range, and the table is as it was
C17_Witness ==
  \E p \in Procs :
    /\ CreateDone(p) /\ h[p].result = "INVALID_DATE_RANGE"
    /\ h[p].inp[1].is_half_day
    /\ h[p].inp[1].end_date < h[p].inp[1].start_date
    /\ h[p].inp[1].start_date < Today
    /\ leave_requests = <<EarlierLeave>>

\* C18 as stated: every create call with start < today ends with PAST_DATE,
\* and a call with start = today does not.
C18_PastStartAlwaysPastDate ==
  \A p \in Procs :
    CreateDone(p) =>
      /\ h[p].inp[1].start_date < Today => h[p].result = "PAST_DATE"
      /\ h[p].inp[1].start_date = Today => h[p].result # "PAST_DATE"

\* C18: a create call with start <= end and start < today ends with PAST_DATE
\* and stores nothing; a call with start = today is not refused as a past date.
C18_PastStartIsRefused ==
  \A p \in Procs :
    CreateDone(p) =>
      /\ (h[p].inp[1].start_date <= h[p].inp[1].end_date
            /\ h[p].inp[1].start_date < Today) =>
           h[p].result = "PAST_DATE" /\ h[p].rid = NoneId
      /\ h[p].inp[1].start_date = Today => h[p].result # "PAST_DATE"

\* a create for a range that begins yesterday and ends after today was
\* refused as a past date, after a request that begins today was stored
C18_Witness ==
  \E p \in Procs :
    /\ CreateDone(p) /\ h[p].result = "PAST_DATE"
    /\ h[p].inp[1].start_date = Today - 1
    /\ h[p].inp[1].end_date > Today
    /\ \E i \in DOMAIN leave_requests :
         leave_requests[i].start_date = Today /\ leave_requests[i].status = "pending"

\* the create call of handler p is for whole days, of a range that is not
\* reversed and holds no working day
NoWorkingDay(p) ==
  /\ ~h[p].inp[1].is_half_day
  /\ h[p].inp[1].start_date <= h[p].inp[1].end_date
  /\ WorkingDates(h[p].inp[1].start_date, h[p].inp[1].end_date) = {}

\* C19 as stated: every whole-day create whose range holds only Saturdays,
\* Sundays and holidays ends with NO_WORKING_DAYS and stores nothing, and no
\* stored request has a day count of 0.
C19_NoWorkingDayAlwaysRefused ==
  /\ \A p \in Procs :
       (CreateDone(p) /\ NoWorkingDay(p)) =>
         h[p].result = "NO_WORKING_DAYS" /\ h[p].rid = NoneId
  /\ \A i \in DOMAIN leave_requests : leave_requests[i].days > 0

\* C19: a whole-day create that does not begin before today and whose range
\* holds only Saturdays, Sundays and holidays ends with NO_WORKING_DAYS and
\* stores nothing, and no stored request has a day count of 0.
C19_NoWorkingDayIsRefused ==
  /\ \A p \in Procs :
       (CreateDone(p) /\ NoWorkingDay(p) /\ h[p].inp[1].start_date >= Today) =>
         h[p].result = "NO_WORKING_DAYS" /\ h[p].rid = NoneId
  /\ \A i \in DOMAIN leave_requests : leave_requests[i].days > 0

\* a whole-day create for a weekend followed by a holiday was refused
C19_Witness ==
  \E p \in Procs :
    /\ CreateDone(p) /\ h[p].result = "NO_WORKING_DAYS"
    /\ NoWorkingDay(p)
    /\ \E d \in holidays :
         h[p].inp[1].start_date < d /\ d <= h[p].inp[1].end_date

\* the date checks and the overlap check have let handler p's create call pass
EarlierChecksPass(p) == DatesAccepted(p) /\ ~Clash(p)

\* C20: a create call that passes the earlier checks ends with
\* INSUFFICIENT_BALANCE and stores nothing exactly when the user's balance of
\* the category is smaller than the day count; otherwise it succeeds.
C20_BalanceIsChecked ==
  \A p \in Procs :
    (CreateDone(p) /\ EarlierChecksPass(p)) =>
      LET inp == h[p].inp[1]
      IN IF BalanceFor(inp.user_id, inp.leave_type) < ExpectedDays(inp)
         THEN h[p].result = "INSUFFICIENT_BALANCE" /\ h[p].rid = NoneId
         ELSE h[p].result = "ok"

\* a create was refused for a category with too little left while another
\* category of the user holds enough
C20_Witness ==
  \E p \in Procs :
    /\ CreateDone(p) /\ h[p].result = "INSUFFICIENT_BALANCE"
    /\ h[p].inp[1].leave_type = "casual"
    /\ EarlierChecksPass(p)
    /\ BalanceFor(h[p].actor, "casual") > 0
    /\ BalanceFor(h[p].actor, "casual") < ExpectedDays(h[p].inp[1])
    /\ BalanceFor(h[p].actor, "sick") >= ExpectedDays(h[p].inp[1])
----------------------------------------------------------------------------
(* Properties of get_balance and carry_forward_leaves *)

\* user u has a balance row of the current accounting year
HasCurrentRow(u) ==
  u \in DOMAIN leave_balances /\ leave_balances[u].year = YearOf(Today)

\* C21: a get_balance call for a user without a balance row of the current
\* year ends with one new row for the user holding the defaults 12, 12 and 5
\* and returns them; a call for a user with a row of the current year returns
\* the stored values and leaves every table as it was.
C21_GetBalanceCreatesOrReturns ==
  [][\A p \in Procs :
       (h'[p].op = "get_balance" /\ h'[p].pc = "done" /\ h[p].pc # "done")
       => LET u == h'[p].actor
          IN IF HasCurrentRow(u)
             THEN /\ h'[p].result = "ok"
                  /\ h'[p].ret = <<balance_values(leave_balances[u])>>
                  /\ UNCHANGED db
             ELSE /\ h'[p].result = "ok"
                  /\ h'[p].ret = <<balance_values(DefaultBalance)>>
                  /\ u \in DOMAIN leave_balances'
                  /\ leave_balances'[u] = DefaultBalance
                  /\ \A x \in DOMAIN leave_balances \ {u} :
                       x \in DOMAIN leave_balances' /\ leave_balances'[x] = leave_balances[x]
                  /\ UNCHANGED <<leave_requests, leave_balance_history, audit_logs,
                                 holidays, front>>]_vars

\* the history entry the claim asks of a carry-forward for user u with row
CarriedEntry(u, row) ==
  [user_id |-> u, leave_type |-> "casual", days_changed |-> Min(row.casual, MaxCarry),
   balance_after |-> DefaultCasual + Min(row.casual, MaxCarry),
   leave_request_id |-> NoneId]

\* C22: a carry-forward leaves every user that has a balance row with casual =
\* 12 + min(casual before, 5), sick = 12 and special = 5, and appends one
\* history entry with the carried amount, whatever the balance before (a
\* casual balance of 0 included).
C22_CarryForwardResetsEveryRow ==
  [][\A p \in Procs :
       (h[p].pc = "carry_commit" /\ h'[p].pc = "done")
       => \A u \in DOMAIN leave_balances :
            LET row == leave_balances[u]
            IN /\ leave_balances'[u].casual = DefaultCasual + Min(row.casual, MaxCarry)
               /\ leave_balances'[u].sick = DefaultSick
               /\ leave_balances'[u].special = DefaultSpecial
               /\ CopiesIn(CarriedEntry(u, row), leave_balance_history')
                    = CopiesIn(CarriedEntry(u, row), leave_balance_history) + 1]_vars

----------------------------------------------------------------------------
(* Properties of the audit log and of the notifications *)

CoreOps == {"create", "approve", "reject", "cancel"}

\* the action name the audit entry of an operation carries
ActionOf(op) ==
  CASE op = "create" -> "created"
    [] op = "approve" -> "approved"
    [] op = "reject" -> "rejected"
    [] op = "cancel" -> "cancelled"

\* the positions of a handler from which an error is raised
RaisingPcs == {"idle", "create_overlap", "create_balance", "create_balance_insert"}

\* C23: the step of a create, approve, reject or cancel that commits its audit
\* entry appends exactly one entry with the request, the action name and the
\* acting user, and no other step of the call changes the audit log; a call
\* ends ok only after that step and ends with an error only before it.
C23_OneAuditEntryPerSuccess ==
  [][\A p \in Procs :
       (h'[p].op \in CoreOps /\ h'[p] # h[p]) =>
         /\ IF h'[p].pc = "notify"
            THEN \E details \in Reasons \cup {NoneText} :
                   audit_logs' =
                     audit_logs (+) SetToBag({AuditLog(h'[p].rid, ActionOf(h'[p].op),
                                                       h'[p].actor, details)})
            ELSE audit_logs' = audit_logs
         /\ (h'[p].pc = "done" /\ h'[p].result = "ok") => h[p].pc = "notify"
         /\ (h'[p].pc = "done" /\ h'[p].result # "ok") => h[p].pc \in RaisingPcs]_vars

\* a second approve of an approved request was refused and the log holds the
\* entry of the first approve once
C23_Witness ==
  \E p \in Procs :
    /\ h[p].op = "approve" /\ h[p].pc = "done" /\ h[p].result = "ALREADY_PROCESSED"
    /\ h[p].rid > 1
    /\ leave_requests[h[p].rid].status = "approved"
    /\ CopiesIn(AuditLog(h[p].rid, "approved", h[p].actor, NoneText), audit_logs) = 1
    /\ CopiesIn(AuditLog(h[p].rid, "created", leave_requests[h[p].rid].user_id, NoneText),
                audit_logs) = 1

\* the status an operation stores
StatusOf(op) ==
  CASE op = "create" -> "pending"
    [] op = "approve" -> "approved"
    [] op = "reject" -> "rejected"
    [] op = "cancel" -> "cancelled"

\* C24: the notification that ends a create, approve, reject or cancel changes
\* no table whether it is delivered or fails, and after it the call returns
\* normally with the request in the status the operation committed.
C24_NotificationLeavesTransaction ==
  [][\A p \in Procs :
       (h[p].pc = "notify" /\ h'[p] # h[p]) =>
         /\ UNCHANGED db
         /\ h'[p].pc = "done" /\ h'[p].result = "ok"
         /\ h'[p].op = h[p].op /\ h'[p].op \in CoreOps /\ h'[p].rid = h[p].rid
         /\ leave_requests'[h'[p].rid].status = StatusOf(h'[p].op)]_vars

\* an approve has ended although its notification was not delivered: the
\* request is approved and the balance is debited
C24_Witness ==
  \E p \in Procs :
    /\ h[p].op = "approve" /\ h[p].pc = "done" /\ h[p].result = "ok"
    /\ ~h[p].sent /\ h[p].debited
    /\ leave_requests[h[p].rid].status = "approved"
    /\ leave_balances[leave_requests[h[p].rid].user_id][leave_requests[h[p].rid].leave_type]
         = h[p].current - leave_requests[h[p].rid].days

----------------------------------------------------------------------------
(* Invariants of the stored requests *)

\* C25: in every reachable state every stored leave request has an end date
\* that is not before its start date and a day count above 0.
C25_StoredRequestsAreWellFormed ==
  \A i \in DOMAIN leave_requests :
    /\ leave_requests[i].end_date >= leave_requests[i].start_date
    /\ leave_requests[i].days > 0

\* a create has stored a half-day request, and the half-day create that has
\* just ended was refused for its reversed range
C25_Witness ==
  /\ \E j \in DOMAIN leave_requests :
       /\ j > 1
       /\ leave_requests[j].duration_type # "full" /\ leave_requests[j].days = HalfDay
  /\ \E p \in Procs :
       /\ CreateDone(p) /\ h[p].inp[1].is_half_day
       /\ h[p].result = "INVALID_DATE_RANGE"
       /\ h[p].inp[1].start_date >= Today

\* the columns of a request that say what was asked
Asked(r) == <<r.user_id, r.start_date, r.end_date, r.leave_type, r.days>>

\* C26: no step removes a stored leave request or changes its owner, dates,
\* category or day count, and no step removes or rewrites an entry of the
\* balance history: both tables only grow.
C26_RequestsAndHistoryAreKept ==
  [][/\ Len(leave_requests') >= Len(leave_requests)
     /\ \A i \in DOMAIN leave_requests : Asked(leave_requests'[i]) = Asked(leave_requests[i])
     /\ \A e \in BagToSet(leave_balance_history) :
          CopiesIn(e, leave_balance_history') >= CopiesIn(e, leave_balance_history)]_vars

\* one request was created, approved and then cancelled, another was rejected
\* and a carry-forward has written a history entry: all of them are still there
C26_Witness ==
  /\ \E i \in DOMAIN leave_requests :
       /\ i > 1
       /\ leave_requests[i].status = "cancelled"
       /\ leave_requests[i].approved_by # NoneId
       /\ leave_requests[i].days > 0
  /\ \E i \in DOMAIN leave_requests : leave_requests[i].status = "rejected"
  /\ BagCardinality(leave_balance_history) > 0
  /\ \A p \in Procs : h[p].pc = "idle"

----------------------------------------------------------------------------
(* Properties of the validator's functions *)

WorkingDaysDone(p) == h[p].op = "working_days" /\ h[p].pc = "done"

\* C27: for start <= end and any holiday table the working days of [start,
\* end] are the days of the range, both ends included, that are Monday to
\* Friday and not a holiday; a Saturday-Sunday range has 0 of them and five
\* weekdays in a row without a holiday have 5.
C27_WorkingDaysCountsWeekdays ==
  \A p \in Procs :
    (WorkingDaysDone(p) /\ h[p].inp[1].start_date <= h[p].inp[1].end_date) =>
      LET s == h[p].inp[1].start_date
          e == h[p].inp[1].end_date
      IN /\ h[p].days = Days(Cardinality(WorkingDates(s, e)))
         /\ (weekday(s) = 5 /\ e = s + 1) => h[p].days = 0
         /\ (weekday(s) = 0 /\ e = s + 4 /\ holidays \cap (s .. e) = {}) =>
              h[p].days = Days(5)

\* the working days of two whole weeks with three holidays on weekdays and one
\* on a Saturday were counted: seven
C27_Witness ==
  \E p \in Procs :
    /\ WorkingDaysDone(p)
    /\ h[p].inp[1].start_date = 0 /\ h[p].inp[1].end_date = 13
    /\ holidays = {1, 3, 5, 8}
    /\ h[p].days = Days(7)

CheckOverlapDone(p) == h[p].op = "check_overlap" /\ h[p].pc = "done"

\* the stored row r counts for user u and intersects the range [s, e]
Conflicts(r, u, s, e) ==
  /\ r.user_id = u
  /\ r.status \in {"pending", "approved"}
  /\ r.start_date <= e /\ s <= r.end_date

\* C29: for s <= e the overlap query of a user answers true exactly when a
\* pending or approved request of that user has a range [s', e'] with s' <= e
\* and s <= e'; requests that are rejected or cancelled, or of another user,
\* never make it true.
C29_OverlapIsIntersection ==
  \A p \in Procs :
    (CheckOverlapDone(p) /\ h[p].inp[1].start_date <= h[p].inp[1].end_date) =>
      LET inp == h[p].inp[1]
      IN /\ h[p].ret[1] <=>
              \E i \in DOMAIN leave_requests :
                Conflicts(leave_requests[i], inp.user_id, inp.start_date, inp.end_date)
         /\ h[p].ret[1] =>
              \E i \in DOMAIN leave_requests :
                /\ leave_requests[i].user_id = inp.user_id
                /\ leave_requests[i].status \notin {"rejected", "cancelled"}

\* the query was true for a pending request that lies strictly inside the
\* asked range, and the user has no other request
C29_Witness ==
  \E p \in Procs :
    /\ CheckOverlapDone(p) /\ h[p].ret[1]
    /\ h[p].inp[1].user_id # EarlierLeave.user_id
    /\ leave_requests[2].user_id = h[p].inp[1].user_id
    /\ leave_requests[2].status = "pending"
    /\ h[p].inp[1].start_date < leave_requests[2].start_date
    /\ leave_requests[2].end_date < h[p].inp[1].end_date

----------------------------------------------------------------------------
(* Properties of half days and of the warnings *)

\* C28 as stated: a half-day create never ends with NO_WORKING_DAYS, and one
\* whose range holds only Saturdays, Sundays and holidays is created with 0.5
\* days.
C28_HalfDayAlwaysCreated ==
  \A p \in Procs :
    (CreateDone(p) /\ h[p].inp[1].is_half_day) =>
      /\ h[p].result # "NO_WORKING_DAYS"
      /\ ( /\ h[p].inp[1].start_date <= h[p].inp[1].end_date
           /\ WorkingDates(h[p].inp[1].start_date, h[p].inp[1].end_date) = {} )
           => /\ h[p].result = "ok" /\ h[p].rid # NoneId
              /\ leave_requests[h[p].rid].days = HalfDay

\* C28: a half-day create never ends with NO_WORKING_DAYS; one that the other
\* checks accept (range, past date, overlap, balance) succeeds whatever its
\* range, a range of Saturdays, Sundays and holidays included, and the request
\* it stores has 0.5 days; every stored half-day request has 0.5 days.
C28_HalfDayIsHalfADay ==
  /\ \A p \in Procs :
       (CreateDone(p) /\ h[p].inp[1].is_half_day) =>
         LET inp == h[p].inp[1]
         IN /\ h[p].result # "NO_WORKING_DAYS"
            /\ h[p].result = "ok" =>
                 /\ h[p].days = HalfDay
                 /\ leave_requests[h[p].rid].days = HalfDay
            /\ ( /\ inp.start_date <= inp.end_date /\ inp.start_date >= Today
                 /\ ~Clash(p)
                 /\ BalanceFor(inp.user_id, inp.leave_type) >= HalfDay )
                 => h[p].result = "ok"
  /\ \A i \in DOMAIN leave_requests :
       leave_requests[i].duration_type # "full" => leave_requests[i].days = HalfDay

\* a half-day create for a weekend and the holiday after it has succeeded and
\* the stored request has 0.5 days
C28_Witness ==
  \E p \in Procs :
    /\ CreateDone(p) /\ h[p].result = "ok" /\ h[p].inp[1].is_half_day
    /\ h[p].inp[1].start_date < h[p].inp[1].end_date
    /\ WorkingDates(h[p].inp[1].start_date, h[p].inp[1].end_date) = {}
    /\ holidays \cap (h[p].inp[1].start_date .. h[p].inp[1].end_date) # {}
    /\ leave_requests[h[p].rid].days = HalfDay
    /\ leave_requests[h[p].rid].duration_type = "half_afternoon"

\* the day count of a create call if no holiday were registered
DaysWithoutHolidays(inp) ==
  IF inp.is_half_day THEN HalfDay
  ELSE Days(Cardinality({d \in inp.start_date .. inp.end_date : d % 7 \notin {5, 6}}))

\* the user of handler p's create call has a pending request other than the
\* one the call stored
OtherPending(p) ==
  \E i \in DOMAIN leave_requests \ {h[p].rid} :
    /\ leave_requests[i].user_id = h[p].inp[1].user_id
    /\ leave_requests[i].status = "pending"

\* a holiday lies in the range of handler p's create call
HolidayInRange(p) ==
  holidays \cap (h[p].inp[1].start_date .. h[p].inp[1].end_date) # {}

\* the warnings the create call of handler p is due
WarningsDue(p) ==
  (IF OtherPending(p) THEN {"pending"} ELSE {}) \cup
  (IF HolidayInRange(p) THEN {"holidays"} ELSE {})

\* the checks on the range let the create call of handler p pass: the range is
\* in order, does not begin before today, keeps a working day and shares no
\* day with a pending or approved request of the user
RangeAccepted(p) ==
  /\ h[p].inp[1].start_date <= h[p].inp[1].end_date
  /\ h[p].inp[1].start_date >= Today
  /\ ExpectedDays(h[p].inp[1]) > 0
  /\ ~Clash(p)

\* C30 as stated: a create whose range is accepted and whose balance would do
\* without the pending requests and the holidays succeeds, with the day count
\* it would have without them, and carries the warnings.
C30_WarningsChangeNothing ==
  \A p \in Procs :
    LET inp == h[p].inp[1]
    IN ( /\ CreateDone(p) /\ RangeAccepted(p)
         /\ BalanceFor(inp.user_id, inp.leave_type) >= DaysWithoutHolidays(inp) )
       => /\ h[p].result = "ok"
          /\ leave_requests[h[p].rid].days = DaysWithoutHolidays(inp)
          /\ h[p].warn = WarningsDue(p)

\* C30: another pending request of the user outside the range and a holiday
\* inside it never make a create fail: a create whose range is accepted and
\* whose balance covers the working days succeeds and carries the warnings;
\* the pending request leaves the day count as it is, the holiday is not
\* counted among the working days.
C30_WarningsDoNotBlock ==
  \A p \in Procs :
    LET inp == h[p].inp[1]
    IN ( /\ CreateDone(p) /\ RangeAccepted(p)
         /\ BalanceFor(inp.user_id, inp.leave_type) >= ExpectedDays(inp) )
       => /\ h[p].result = "ok"
          /\ leave_requests[h[p].rid].days = ExpectedDays(inp)
          /\ h[p].warn = WarningsDue(p)
          /\ ~HolidayInRange(p) => ExpectedDays(inp) = DaysWithoutHolidays(inp)

\* a create has succeeded with both warnings
C30_Witness ==
  \E p \in Procs :
    /\ CreateDone(p) /\ h[p].result = "ok"
    /\ OtherPending(p) /\ HolidayInRange(p)
    /\ h[p].warn = {"pending", "holidays"}
    /\ leave_requests[h[p].rid].days = ExpectedDays(h[p].inp[1])

----------------------------------------------------------------------------
(* Properties of concurrent calls *)

\* no handler is between its first read and its last commit
Quiescent == \A p \in Procs : h[p].pc \in {"idle", "notify", "done"}

\* the number of audit entries with the action for request rid
Logged(rid, action) ==
  BagCardinality([e \in {x \in BagToSet(audit_logs) :
                          x.leave_request_id = rid /\ x.action = action}
                    |-> CopiesIn(e, audit_logs)])

\* the number of carry-forward entries of user u in the balance history
CarriedTimes(u) ==
  BagCardinality([e \in {x \in BagToSet(leave_balance_history) : x.user_id = u}
                    |-> CopiesIn(e, leave_balance_history)])

\* what an approve of days d makes of a balance b, run on its own
DebitOf(b, d) == IF b < d THEN b ELSE b - d

\* what a carry-forward makes of a casual balance b, run on its own
CarryOf(b) == IF b > 0 THEN DefaultCasual + Min(b, MaxCarry) ELSE b

\* C31: when one approve of the pending request of user 1 and one
\* carry-forward that reset the row of user 1 have both committed, and nothing
\* else has written the row, the casual balance is what the two operations give
\* when run one after the other, in one of the two orders.
C31_CarryAndApproveSerialize ==
  ( /\ Quiescent
    /\ Logged(2, "approved") = 1 /\ Logged(2, "cancelled") = 0
    /\ CarriedTimes(1) = 1 )
  => LET b == LowBalance.casual
         d == leave_requests[2].days
     IN leave_balances[1].casual \in {CarryOf(DebitOf(b, d)), DebitOf(CarryOf(b), d)}

\* the days of the approved requests of user u in category t, among the first
\* n stored requests
RECURSIVE ApprovedDays(_, _, _)
ApprovedDays(n, u, t) ==
  IF n = 0 THEN 0
  ELSE ApprovedDays(n - 1, u, t) +
       (IF /\ leave_requests[n].user_id = u /\ leave_requests[n].leave_type = t
           /\ leave_requests[n].status = "approved"
        THEN leave_requests[n].days ELSE 0)

\* C32: between the calls of approve, reject and cancel every stored balance
\* is the default entitlement of its category less the days of the user's
\* approved requests of that category, and so never above the entitlement.
C32_LedgerConservation ==
  Quiescent =>
    \A u \in DOMAIN leave_balances, t \in LeaveType :
      /\ leave_balances[u][t] = DefaultBalance[t] - ApprovedDays(Len(leave_requests), u, t)
      /\ leave_balances[u][t] <= DefaultBalance[t]

\* handlers p and q have each finished an approve call on the same request
BothApproved(p, q) ==
  /\ p # q
  /\ h[p].op = "approve" /\ h[q].op = "approve"
  /\ h[p].pc = "done" /\ h[q].pc = "done"
  /\ h[p].rid = h[q].rid

\* C33: of two approve calls on the same request, one of which succeeds, the
\* other ends with AlreadyProcessed, and the owner's balance is debited by at
\* most one of them.
C33_ConcurrentApprovesDebitOnce ==
  \A p, q \in Procs :
    (BothApproved(p, q) /\ h[p].result = "ok") =>
      /\ h[q].result = "ALREADY_PROCESSED"
      /\ ~(h[p].debited /\ h[q].debited)

\* another handler's cancel call on the request of handler p has already
\* committed its refund
RefundedBefore(p) ==
  \E q \in Procs \ {p} :
    h[q].op = "cancel" /\ h[q].rid = h[p].rid /\ h[q].credited

\* C34: the days of an approved request are credited once: when a cancel call
\* commits its refund after another cancel call on the same request has
\* committed one, the stored balances do not grow again.
C34_RefundedAtMostOnce ==
  [][\A p \in Procs :
       ( /\ h[p].op = "cancel" /\ ~h[p].credited /\ h'[p].credited
         /\ RefundedBefore(p) )
       => leave_balances' = leave_balances]_vars

\* C35: the refund of a cancel call and the change of the request's status
\* are committed together: in no committed state has a cancel call credited
\* the balance while its request is still stored as approved.
C35_RefundAndStatusAreAtomic ==
  \A p \in Procs :
    (h[p].op = "cancel" /\ h[p].credited) =>
      leave_requests[h[p].rid].status # "approved"

\* stored requests i and j are of one user, both pending or approved, and
\* their date ranges share a calendar day
DoubleBooked(i, j) ==
  /\ i # j
  /\ leave_requests[i].user_id = leave_requests[j].user_id
  /\ leave_requests[i].status \in {"pending", "approved"}
  /\ leave_requests[j].status \in {"pending", "approved"}
  /\ leave_requests[i].start_date <= leave_requests[j].end_date
  /\ leave_requests[j].start_date <= leave_requests[i].end_date

\* C36: in every reachable state no user has two pending or approved requests
\* whose date ranges share a calendar day.
C36_NoDoubleBooking ==
  \A i, j \in 1 .. Len(leave_requests) : ~DoubleBooked(i, j)

----------------------------------------------------------------------------
(* Properties of handle_webhook *)

\* C37: the command of a message is run at most once, however the deliveries
\* of the message interleave, and a delivery whose message id is already
\* recorded is acknowledged as already processed with nothing written.
C37_MessageRunsAtMostOnce ==
  [][/\ \A m \in MessageIds : commands'[m] <= 1
     /\ \A p \in Procs :
          ( /\ h[p].pc = "idle" /\ h'[p].op = "handle_webhook"
            /\ h'[p].rid \in processed_messages )
          => /\ h'[p].pc = "done"
             /\ h'[p].ret = <<"already processed">>
             /\ UNCHANGED db]_vars

\* two deliveries of one message have both passed the lookup before either
\* recorded the id; one has run the command, the other is about to record
C37_Witness ==
  \E p, q \in Procs :
    /\ p # q
    /\ h[p].op = "handle_webhook" /\ h[q].op = "handle_webhook"
    /\ h[p].rid = h[q].rid
    /\ h[p].pc = "done" /\ h[p].result = "ok" /\ h[p].ret = <<>>
    /\ commands[h[p].rid] = 1
    /\ h[q].pc = "webhook_mark"

----------------------------------------------------------------------------
(* Properties of approve_account_request *)

\* the table t is the table s with one more key, k
Extends(t, s, k) ==
  /\ k \notin DOMAIN s
  /\ DOMAIN t = DOMAIN s \cup {k}
  /\ \A x \in DOMAIN s : t[x] = s[x]

====
